---------------------------- MODULE Spec2Model ----------------------------
(***************************************************************************)
(* A model of extract_cdbk_pdf_answers.py: the pipeline that turns the     *)
(* positioned boxes of the codebook into per-variable records.             *)
(*                                                                         *)
(* Strings are sequences of one-character strings, so that "in", split,    *)
(* strip, replace, int() and float() are computed, not assumed.            *)
(*                                                                         *)
(* The module holds one specification per stage of the pipeline:           *)
(*   SpecGroup   element sorting (l.231-238) and group_elements (l.248)    *)
(*   SpecHyph    replace_hyphenated_words (l.303)                          *)
(*   SpecTable   get_answer_fields (l.650), one action per step            *)
(*   SpecMain    the per-unit loop and the JSON dump (l.931-982)           *)
(*   SpecName    get_variable_name (l.324) called on its own               *)
(*   SpecTrim    the cut to the data pages (l.94-109)                      *)
(*   SpecClean   the removal passes (l.145-161) and the extraction of      *)
(*               the elements (l.190-228)                                  *)
(*   SpecBroad   get_middle_section_broad (l.436), one action per stage    *)
(*   SpecMiddle  get_middle_section (l.381) called by get_universe         *)
(* and one for the viewer, verify_app.py:                                  *)
(*   SpecView    the callbacks of the select box and of the buttons        *)
(* A specification leaves the variables of the other stages at Idle.       *)
(***************************************************************************)
EXTENDS Integers, Sequences, FiniteSets, TLC

VARIABLES
    pc,            \* position in the stage being run
    extracted,     \* `elements` as appended by the extraction loop (l.191-228)
    elements,      \* `elements` (l.233 onwards)
    gi,            \* group_elements: index of the next element of the for loop
    current_unit,  \* group_elements: current_unit
    units,         \* group_elements: units (the returned list once pc = "grouped")
    hyph_in,       \* replace_hyphenated_words: the argument s
    hyph_out,      \* replace_hyphenated_words(s)
    hyph_out2,     \* replace_hyphenated_words(replace_hyphenated_words(s))
    unit,          \* get_answer_fields: the argument unit
    out,           \* get_answer_fields: the dict out
    err,           \* get_answer_fields: the exception raised ("" for none)
    questions,     \* the main loop: `questions`, one dict per unit (l.933)
    qi,            \* the main loop: index of the unit the for loop is at
    raised,        \* the exception each unit so far raised in the try block
    output,        \* the file args.output: whether written, and what
    arg,           \* a function called on its own: the argument
    ret,           \* a function called on its own: what it gave
    soup,          \* `soup`: the top-level nodes of the document, in order
    si,            \* position of the iterator of a loop over soup.children
    data,          \* verify_app.py: `data`, each record as its variable name
    session_state  \* verify_app.py: st.session_state

groupVars == <<extracted, elements, gi, current_unit, units>>
hyphVars == <<hyph_in, hyph_out, hyph_out2>>
tableVars == <<unit, out, err>>
mainVars == <<questions, qi, raised, output>>
callVars == <<arg, ret>>
soupVars == <<soup, si>>
viewVars == <<data, session_state>>
vars ==
    <<pc, groupVars, hyphVars, tableVars, mainVars, callVars, soupVars,
      viewVars>>

Idle == <<>>

IdleGroup ==
    /\ extracted = Idle /\ elements = Idle /\ gi = Idle
    /\ current_unit = Idle /\ units = Idle

IdleHyph == hyph_in = Idle /\ hyph_out = Idle /\ hyph_out2 = Idle

IdleTable == unit = Idle /\ out = Idle /\ err = Idle

IdleMain == questions = Idle /\ qi = Idle /\ raised = Idle /\ output = Idle

IdleCall == arg = Idle /\ ret = Idle

IdleSoup == soup = Idle /\ si = Idle

IdleView == data = Idle /\ session_state = Idle

----------------------------------------------------------------------------
(* Strings *)

WS == {" ", "\n", "\t"}

RECURSIVE LStrip(_)
LStrip(s) == IF s # <<>> /\ Head(s) \in WS THEN LStrip(Tail(s)) ELSE s

RECURSIVE RStrip(_)
RStrip(s) ==
    IF s # <<>> /\ s[Len(s)] \in WS THEN RStrip(SubSeq(s, 1, Len(s) - 1)) ELSE s

\* str.strip()
Strip(s) == RStrip(LStrip(s))

----------------------------------------------------------------------------
(* Element (l.166-187) *)

TEXT_TYPE == "text"
DIVIDER_TYPE == "divider"

\* Element(...) with __post_init__: right and bottom are derived.
Element(elem_type, left, top, width, height, text) ==
    [elem_type |-> elem_type, left |-> left, top |-> top,
     width |-> width, height |-> height,
     right |-> left + width, bottom |-> top + height, text |-> text]

----------------------------------------------------------------------------
(* Sorting (l.231-238) *)

\* sorted(s, key=lambda e: e.<key>): Python's sort is stable, so the element at index i
\* lands after every element with a smaller key and after the elements with
\* an equal key that precede it in s.
SortedBy(s, key) ==
    LET n == Len(s)
        Rank(i) == Cardinality({j \in 1..n :
                        \/ s[j][key] < s[i][key]
                        \/ s[j][key] = s[i][key] /\ j <= i})
    IN  [p \in 1..n |-> s[CHOOSE i \in 1..n : Rank(i) = p]]

\* The passes in the other order: by top, then by left.
SortElementsLeftLast(es) == SortedBy(SortedBy(es, "top"), "left")

\* l.233-234: elements = sorted(elements, key=left); sorted(elements, key=top)
SortElements(es) == SortedBy(SortedBy(es, "left"), "top")

\* l.237-238: e.text = e.text.strip() for every element
StripElements(es) == [i \in 1..Len(es) |-> [es[i] EXCEPT !.text = Strip(@)]]

----------------------------------------------------------------------------
(* Bounds and inputs of SpecGroup *)

MaxElems == 3

GroupTops == {100, 112}
GroupLefts == {36, 178}
GroupTexts == {<<"x">>, <<" ", "y">>}

\* The boxes the extraction loop can append: a div gives a text Element with
\* the box's text, a span a divider Element (a span has no text).
GroupElems ==
    {Element(TEXT_TYPE, l, t, 10, 10, x) :
        l \in GroupLefts, t \in GroupTops, x \in GroupTexts}
    \cup {Element(DIVIDER_TYPE, l, t, 10, 0, <<>>) :
        l \in GroupLefts, t \in GroupTops}

InitGroup ==
    /\ pc = "extracted"
    /\ extracted \in UNION {[1..n -> GroupElems] : n \in 0..MaxElems}
    /\ elements = extracted
    /\ gi = 1
    /\ current_unit = <<>>
    /\ units = <<>>
    /\ IdleHyph /\ IdleTable /\ IdleMain /\ IdleCall /\ IdleSoup
    /\ IdleView

\* The variables SpecGroup leaves alone.
notGroup == <<hyphVars, tableVars, mainVars, callVars, soupVars, viewVars>>

\* l.233-238
SortAndStrip ==
    /\ pc = "extracted"
    /\ elements' = StripElements(SortElements(elements))
    /\ pc' = "sorted"
    /\ UNCHANGED <<extracted, gi, current_unit, units, notGroup>>

\* l.257-259: group_elements is entered
GroupEnter ==
    /\ pc = "sorted"
    /\ units' = <<>>
    /\ current_unit' = <<>>
    /\ gi' = 1
    /\ pc' = "grouping"
    /\ UNCHANGED <<extracted, elements, notGroup>>

\* What `return units` gives back after the loop, with the open unit appended
\* first.
GroupResultWithLast(us, cur) == Append(us, cur)

\* l.267: return units
GroupResult(us, cur) == us

\* One iteration of a loop in which a divider closes the current unit only
\* when the unit holds an element.
GroupStepNoEmptyUnit ==
    /\ pc = "grouping"
    /\ gi <= Len(elements)
    /\ \/ /\ elements[gi].elem_type = DIVIDER_TYPE
          /\ units' = IF current_unit = <<>> THEN units
                       ELSE Append(units, current_unit)
          /\ current_unit' = <<>>
       \/ /\ elements[gi].elem_type # DIVIDER_TYPE
          /\ current_unit' = Append(current_unit, elements[gi])
          /\ UNCHANGED units
    /\ gi' = gi + 1
    /\ UNCHANGED <<pc, extracted, elements, notGroup>>

\* l.259-266: one iteration of the for loop
GroupStep ==
    /\ pc = "grouping"
    /\ gi <= Len(elements)
    /\ \/ /\ elements[gi].elem_type = DIVIDER_TYPE
          /\ units' = Append(units, current_unit)
          /\ current_unit' = <<>>
       \/ /\ elements[gi].elem_type # DIVIDER_TYPE
          /\ current_unit' = Append(current_unit, elements[gi])
          /\ UNCHANGED units
    /\ gi' = gi + 1
    /\ UNCHANGED <<pc, extracted, elements, notGroup>>

\* l.267
GroupReturn ==
    /\ pc = "grouping"
    /\ gi > Len(elements)
    /\ units' = GroupResult(units, current_unit)
    /\ pc' = "grouped"
    /\ UNCHANGED <<extracted, elements, gi, current_unit, notGroup>>

NextGroup == SortAndStrip \/ GroupEnter \/ GroupStep \/ GroupReturn

SpecGroup == InitGroup /\ [][NextGroup]_vars

----------------------------------------------------------------------------
(* Claims about sorting and grouping, checked under SpecGroup *)

NumDividers(es) ==
    Cardinality({i \in 1..Len(es) : es[i].elem_type = DIVIDER_TYPE})

\* The Text elements after the last Divider of es, in order.
AfterLastDivider(es) ==
    LET D == {i \in 1..Len(es) : es[i].elem_type = DIVIDER_TYPE}
        last == IF D = {} THEN 0 ELSE CHOOSE i \in D : \A j \in D : j <= i
    IN  SubSeq(es, last + 1, Len(es))

\* C1: group_elements returns (number of Dividers + 1) Units when the stream
\* has a Divider and 1 Unit when it has none, the Text elements after the
\* last Divider being the final Unit.
C1_UnitCountIsDividersPlusOne ==
    pc = "grouped" =>
        /\ Len(units) = NumDividers(elements) + 1
        /\ units[Len(units)] = AfterLastDivider(elements)

\* C8: the sequence handed to group_elements is the extracted list ordered by
\* top, then by left, elements with equal top and left keeping the order they
\* were extracted in.
C8_SortedByTopThenLeftStable ==
    pc \in {"sorted", "grouping", "grouped"} =>
        LET n == Len(extracted)
        IN  /\ Len(elements) = n
            /\ \E p \in [1..n -> 1..n] :
                /\ \A i, j \in 1..n : i # j => p[i] # p[j]
                /\ \A i \in 1..n :
                    elements[i] = [extracted[p[i]] EXCEPT !.text = Strip(@)]
                /\ \A i, j \in 1..n : i < j =>
                    \/ elements[i].top < elements[j].top
                    \/ /\ elements[i].top = elements[j].top
                       /\ elements[i].left < elements[j].left
                    \/ /\ elements[i].top = elements[j].top
                       /\ elements[i].left = elements[j].left
                       /\ p[i] < p[j]

\* A sorted list whose first extracted box lies lower but further left than
\* the last one, and whose first two boxes share top and left and differ.
C8_Witness ==
    /\ pc = "sorted"
    /\ Len(extracted) = 3
    /\ extracted[1].top > extracted[3].top
    /\ extracted[1].left < extracted[3].left
    /\ extracted[1].top = extracted[2].top
    /\ extracted[1].left = extracted[2].left
    /\ extracted[1] # extracted[2]
    /\ elements[1].top < elements[2].top

\* The positions of the Dividers of es, and the position of the k-th of them
\* (0 for k = 0).
DividersOf(es) == {i \in 1..Len(es) : es[i].elem_type = DIVIDER_TYPE}
DividerAt(es, k) ==
    IF k = 0 THEN 0
    ELSE CHOOSE i \in DividersOf(es) :
            Cardinality({j \in DividersOf(es) : j <= i}) = k

\* C17: group_elements returns one Unit per Divider; the k-th Unit is the run
\* of elements that lies between the Divider before it and the k-th Divider,
\* in the order of the stream and empty when nothing lies between; so a Unit
\* holds Text elements only and no position of the stream is in two Units.
C17_UnitsAreRunsBetweenDividers ==
    pc = "grouped" =>
        /\ Len(units) = Cardinality(DividersOf(elements))
        /\ \A k \in 1..Len(units) :
              /\ units[k] = SubSeq(elements, DividerAt(elements, k - 1) + 1,
                                   DividerAt(elements, k) - 1)
              /\ \A i \in 1..Len(units[k]) :
                    units[k][i].elem_type = TEXT_TYPE

\* A stream that begins with a Divider and goes on with a Text element and a
\* second Divider: an empty Unit, then a Unit of one element.
C17_Witness ==
    /\ pc = "grouped"
    /\ Len(elements) = 3
    /\ elements[1].elem_type = DIVIDER_TYPE
    /\ Len(units) = 2
    /\ units[1] = <<>>
    /\ units[2] = <<elements[2]>>

----------------------------------------------------------------------------
(* replace_hyphenated_words (l.303-314) *)

Lower == {"a", "b", "c", "d", "e", "f", "g", "h", "i", "j", "k", "l", "m",
          "n", "o", "p", "q", "r", "s", "t", "u", "v", "w", "x", "y", "z"}
Upper == {"A", "B", "C", "D", "E", "F", "G", "H", "I", "J", "K", "L", "M",
          "N", "O", "P", "Q", "R", "S", "T", "U", "V", "W", "X", "Y", "Z"}

\* The pattern with the lookahead accepting a letter of either case.
HyphenMatchAtAnyCase(s, i) ==
    /\ i > 1 /\ i + 2 <= Len(s)
    /\ s[i] = "-" /\ s[i + 1] = " "
    /\ s[i - 1] \in Lower
    /\ s[i + 2] \in Lower \cup Upper

\* l.314: the pattern (?<=[a-z])- (?=[a-z]) matches at index i of s
HyphenMatchAt(s, i) ==
    /\ i > 1 /\ i + 2 <= Len(s)
    /\ s[i] = "-" /\ s[i + 1] = " "
    /\ s[i - 1] \in Lower
    /\ s[i + 2] \in Lower

\* re.sub(pattern, "", s) from index i: the scan goes left to right over s,
\* drops each match and resumes after it; the lookarounds read s itself.
RECURSIVE ReSubFrom(_, _)
ReSubFrom(s, i) ==
    IF i > Len(s) THEN <<>>
    ELSE IF HyphenMatchAt(s, i) THEN ReSubFrom(s, i + 2)
    ELSE <<s[i]>> \o ReSubFrom(s, i + 1)

\* l.303-314
replace_hyphenated_words(s) == ReSubFrom(s, 1)

MaxStrLen == 7

HyphAlphabet == {"a", "B", "-", " "}

InitHyph ==
    /\ pc = "input"
    /\ hyph_in \in UNION {[1..n -> HyphAlphabet] : n \in 0..MaxStrLen}
    /\ hyph_out = <<>>
    /\ hyph_out2 = <<>>
    /\ IdleGroup /\ IdleTable /\ IdleMain /\ IdleCall /\ IdleSoup
    /\ IdleView

notHyph == <<groupVars, tableVars, mainVars, callVars, soupVars, viewVars>>

HyphOnce ==
    /\ pc = "input"
    /\ hyph_out' = replace_hyphenated_words(hyph_in)
    /\ pc' = "once"
    /\ UNCHANGED <<hyph_in, hyph_out2, notHyph>>

HyphTwice ==
    /\ pc = "once"
    /\ hyph_out2' = replace_hyphenated_words(hyph_out)
    /\ pc' = "twice"
    /\ UNCHANGED <<hyph_in, hyph_out, notHyph>>

NextHyph == HyphOnce \/ HyphTwice

SpecHyph == InitHyph /\ [][NextHyph]_vars

\* The start indices of "- " between two lowercase letters.
HyphenSites(s) ==
    {i \in 2..(Len(s) - 2) :
        s[i] = "-" /\ s[i + 1] = " " /\ s[i - 1] \in Lower /\ s[i + 2] \in Lower}

\* The number of "- " in s that an uppercase letter follows.
HyphenBeforeUpper(s) ==
    Cardinality({i \in 1..(Len(s) - 2) :
        s[i] = "-" /\ s[i + 1] = " " /\ s[i + 2] \in Upper})

\* s without the characters at the indices in D.
Without(s, D) ==
    LET keep == (1..Len(s)) \ D
    IN  [k \in 1..Cardinality(keep) |->
            s[CHOOSE i \in keep : Cardinality({j \in keep : j <= i}) = k]]

\* C9: replace_hyphenated_words is idempotent, deletes exactly the "- " that
\* lie between two lowercase letters, and keeps every "- " that an uppercase
\* letter follows.
C9_DehyphenationIdempotentAndScoped ==
    /\ pc \in {"once", "twice"} =>
        /\ hyph_out = Without(hyph_in,
               UNION {{i, i + 1} : i \in HyphenSites(hyph_in)})
        /\ HyphenBeforeUpper(hyph_out) = HyphenBeforeUpper(hyph_in)
        /\ HyphenSites(hyph_out) = {}
    /\ pc = "twice" => hyph_out2 = hyph_out

\* "a- a- B" has been dehyphenated twice: one site deleted, one kept.
C9_Witness ==
    /\ pc = "twice"
    /\ hyph_in = <<"a", "-", " ", "a", "-", " ", "B">>
    /\ hyph_out = <<"a", "a", "-", " ", "B">>

----------------------------------------------------------------------------
(* Field (l.12-32): Field.<name>.name is the string "<name>", and           *)
(* Field.<name>.value the heading text V_<name>.                            *)

ANS == "answer_categories"
CODE == "code"
FREQ == "frequency"
WEIGHTED == "weighted_frequency"
PERC == "percent"
TOTAL == "total"

V_answer_categories ==
    <<"A", "n", "s", "w", "e", "r", " ", "C", "a", "t", "e", "g", "o",
      "r", "i", "e", "s">>
V_code == <<"C", "o", "d", "e">>
V_frequency == <<"F", "r", "e", "q", "u", "e", "n", "c", "y">>
V_weighted_frequency ==
    <<"W", "e", "i", "g", "h", "t", "e", "d", " ", "F", "r", "e", "q",
      "u", "e", "n", "c", "y">>
V_percent == <<"%">>

V_variable_name ==
    <<"V", "a", "r", "i", "a", "b", "l", "e", " ", "N", "a", "m",
      "e", ":">>
V_length == <<"L", "e", "n", "g", "t", "h", ":">>
V_position ==
    <<"P", "o", "s", "i", "t", "i", "o", "n", ":">>
V_question_name ==
    <<"Q", "u", "e", "s", "t", "i", "o", "n", " ", "N", "a", "m",
      "e", ":">>
V_concept == <<"C", "o", "n", "c", "e", "p", "t", ":">>
V_question_text ==
    <<"Q", "u", "e", "s", "t", "i", "o", "n", " ", "T", "e", "x",
      "t", ":">>
V_universe ==
    <<"U", "n", "i", "v", "e", "r", "s", "e", ":">>
V_note == <<"N", "o", "t", "e", ":">>
V_source == <<"S", "o", "u", "r", "c", "e", ":">>

FieldValue(name) ==
    CASE name = ANS -> V_answer_categories
      [] name = CODE -> V_code
      [] name = FREQ -> V_frequency
      [] name = WEIGHTED -> V_weighted_frequency
      [] name = PERC -> V_percent

\* FAULTY_CHARACTER_MAPPER (l.39-42). The two non-ASCII characters are written
\* "<fi>" (the fi ligature) and "<rsquo>" (the right single quotation mark).
FAULTY_CHARACTER_MAPPER ==
    <<[k |-> "<fi>", v |-> <<"f", "i">>], [k |-> "<rsquo>", v |-> <<"'">>]>>

\* The mapper {',': ''} of l.875.
COMMA_MAPPER == <<[k |-> ",", v |-> <<>>]>>

----------------------------------------------------------------------------
(* Helpers (l.281-321, 639-647) *)

\* None, as a value that compares with an Element
None == [elem_type |-> "None"]

\* needle in hay
Contains(needle, hay) ==
    \E i \in 1..(Len(hay) - Len(needle) + 1) :
        SubSeq(hay, i, i + Len(needle) - 1) = needle

\* s.split(sep) for a one-character sep
RECURSIVE Split(_, _)
Split(s, sep) ==
    IF \A i \in 1..Len(s) : s[i] # sep THEN <<s>>
    ELSE LET i == CHOOSE i \in 1..Len(s) :
                    s[i] = sep /\ \A j \in 1..(i - 1) : s[j] # sep
         IN  <<SubSeq(s, 1, i - 1)>> \o Split(SubSeq(s, i + 1, Len(s)), sep)

\* l.281-283
split_and_strip(s) ==
    LET parts == Split(s, "\n") IN [i \in 1..Len(parts) |-> Strip(parts[i])]

\* s.replace(k, v) for a one-character k
RECURSIVE ReplaceChar(_, _, _)
ReplaceChar(s, k, v) ==
    IF s = <<>> THEN <<>>
    ELSE (IF Head(s) = k THEN v ELSE <<Head(s)>>) \o ReplaceChar(Tail(s), k, v)

\* l.286-300: the replacements are applied one after the other
RECURSIVE replace_characters(_, _)
replace_characters(s, mapper) ==
    IF mapper = <<>> THEN s
    ELSE replace_characters(ReplaceChar(s, Head(mapper).k, Head(mapper).v),
                            Tail(mapper))

\* l.317-321: the first element whose text contains `text`, else None
get_elem_by_text(u, text) ==
    LET hits == {i \in 1..Len(u) : Contains(text, u[i].text)}
    IN  IF hits = {} THEN None
        ELSE u[CHOOSE i \in hits : \A j \in hits : i <= j]

\* Concatenation of a sequence of sequences.
RECURSIVE Concat(_)
Concat(ss) == IF ss = <<>> THEN <<>> ELSE Head(ss) \o Concat(Tail(ss))

\* ' '.join(parts)
RECURSIVE JoinSpace(_)
JoinSpace(parts) ==
    IF parts = <<>> THEN <<>>
    ELSE IF Len(parts) = 1 THEN parts[1]
    ELSE parts[1] \o <<" ">> \o JoinSpace(Tail(parts))

----------------------------------------------------------------------------
(* int() and float() *)

Digits == {"0", "1", "2", "3", "4", "5", "6", "7", "8", "9"}

DigitVal(c) ==
    CASE c = "0" -> 0 [] c = "1" -> 1 [] c = "2" -> 2 [] c = "3" -> 3
      [] c = "4" -> 4 [] c = "5" -> 5 [] c = "6" -> 6 [] c = "7" -> 7
      [] c = "8" -> 8 [] c = "9" -> 9

RECURSIVE DigitsVal(_)
DigitsVal(s) ==
    IF s = <<>> THEN 0
    ELSE 10 * DigitsVal(SubSeq(s, 1, Len(s) - 1)) + DigitVal(s[Len(s)])

IsDigits(s) == s # <<>> /\ \A i \in 1..Len(s) : s[i] \in Digits

\* int(s) is defined: surrounding whitespace is ignored, the rest must be
\* decimal digits (signs and underscores do not occur in the inputs).
IntOk(s) == IsDigits(Strip(s))
IntOf(s) == DigitsVal(Strip(s))

\* float(s), for the decimal literals d+ and d+.d{0,3}: the value is kept
\* exactly, in thousandths.
FloatOk(s) ==
    LET t == Strip(s)
        parts == Split(t, ".")
    IN  \/ IsDigits(t)
        \/ /\ Len(parts) = 2
           /\ Len(parts[2]) <= 3
           /\ IsDigits(parts[1] \o parts[2])
FloatOf(s) ==
    LET parts == Split(Strip(s), ".")
        frac == IF Len(parts) = 2 THEN parts[2] ELSE <<>>
        pad == frac \o [i \in 1..(3 - Len(frac)) |-> "0"]
    IN  1000 * DigitsVal(parts[1]) + DigitsVal(pad)

\* round(x, 2) of a non-negative x given in thousandths, as hundredths: to the
\* nearest hundredth. Python rounds the binary double, in which a decimal tie
\* (x ending in 5) falls to either side; here a tie goes to the even
\* hundredth.
Round2(x) ==
    LET q == x \div 10
        r == x % 10
    IN  IF r > 5 \/ (r = 5 /\ q % 2 = 1) THEN q + 1 ELSE q

----------------------------------------------------------------------------
(* get_answer_fields (l.650-899), step by step *)

POS_TOL == 10
POS_BUFFER == 10
FREQ_RIGHT_POS == 386

\* What the category and code lists hold: PageBreak() and CodeElementBreak()
\* objects (l.621-636), lists of lines (split_and_strip of an element's text)
\* and, once flattened, strings.
PageBreak == [kind |-> "PageBreak"]
CodeElementBreak == [kind |-> "CodeElementBreak"]
ListOf(lines) == [kind |-> "list", v |-> lines]
StrOf(s) == [kind |-> "str", v |-> s]

\* len(e) with markers of length 0.
TokenLenMarkersZero(e) == IF e.kind = "list" THEN Len(e.v) ELSE 0

\* len(e), l.754 and l.758: __len__ of a marker is 1
TokenLen(e) == IF e.kind = "list" THEN Len(e.v) ELSE 1

\* An element e lies in the column of heading_elem (l.727-735).
InColumn(heading, heading_elem, e) ==
    IF heading = ANS
    THEN heading_elem.left - POS_TOL < e.left /\ e.left < heading_elem.left + POS_TOL
    ELSE heading_elem.right - POS_TOL < e.right
         /\ e.right < heading_elem.right + POS_TOL

\* l.714-735: the loop over the unit u from index i on, header_count headings
\* having been met.
RECURSIVE CollectFrom(_, _, _, _, _)
CollectFrom(u, i, heading, heading_elem, header_count) ==
    IF i > Len(u) THEN <<>>
    ELSE LET e == u[i] IN
        IF e.top < heading_elem.top
        THEN CollectFrom(u, i + 1, heading, heading_elem, header_count)
        ELSE IF Contains(FieldValue(heading), e.text)
        THEN (IF header_count = 0 THEN <<>> ELSE <<PageBreak>>)
             \o CollectFrom(u, i + 1, heading, heading_elem, header_count + 1)
        ELSE (IF InColumn(heading, heading_elem, e)
              THEN <<ListOf(split_and_strip(e.text))>> ELSE <<>>)
             \o CollectFrom(u, i + 1, heading, heading_elem, header_count)

\* l.705-735 with header_count starting at 1: the first heading counts as a
\* repeated one.
CollectColumnCountFromOne(u, heading) ==
    CollectFrom(u, 1, heading, get_elem_by_text(u, FieldValue(heading)), 1)

\* l.705-735 for one heading of [ANS, CODE]
CollectColumn(u, heading) ==
    CollectFrom(u, 1, heading, get_elem_by_text(u, FieldValue(heading)), 0)

\* l.740-746 without the test i > 0: a CodeElementBreak before the first
\* entry too, unless it is a PageBreak.
InsertCodeBreaksFromFirst(code) ==
    Concat([i \in 1..Len(code) |->
        IF code[i] # PageBreak /\ (i = 1 \/ code[i - 1] # PageBreak)
        THEN <<CodeElementBreak, code[i]>>
        ELSE <<code[i]>>])

\* A CodeElementBreak before every entry but the first, PageBreak or not.
InsertCodeBreaksEverywhere(code) ==
    Concat([i \in 1..Len(code) |->
        IF i > 1 THEN <<CodeElementBreak, code[i]>> ELSE <<code[i]>>])

\* l.740-746
InsertCodeBreaks(code) ==
    Concat([i \in 1..Len(code) |->
        IF i > 1 /\ code[i] # PageBreak /\ code[i - 1] # PageBreak
        THEN <<CodeElementBreak, code[i]>>
        ELSE <<code[i]>>])

\* sum(len(e) for e in lst), l.754 and l.758
RECURSIVE SumLen(_)
SumLen(lst) == IF lst = <<>> THEN 0 ELSE TokenLen(Head(lst)) + SumLen(Tail(lst))

\* l.639-647: the lines of a list become entries, anything else is kept
flatten(lst) ==
    Concat([i \in 1..Len(lst) |->
        IF lst[i].kind = "list"
        THEN [j \in 1..Len(lst[i].v) |-> StrOf(lst[i].v[j])]
        ELSE <<lst[i]>>])

Min(a, b) == IF a < b THEN a ELSE b

\* The loop over merged with the category at a CodeElementBreak dropped
\* and not joined to the one before.
RECURSIVE MergeFromDropAtBreak(_, _, _, _, _)
MergeFromDropAtBreak(ans, code, i, ans_out, code_out) ==
    IF i > Min(Len(ans), Len(code))
    THEN [err |-> "", ans |-> ans_out, code |-> code_out]
    ELSE LET a == ans[i]
             c == code[i]
         IN  IF a = PageBreak \/ c = PageBreak
             THEN IF a = PageBreak /\ c = PageBreak
                  THEN MergeFromDropAtBreak(ans, code, i + 1, ans_out, code_out)
                  ELSE [err |-> "AssertionError: page break mismatch",
                        ans |-> ans_out, code |-> code_out]
             ELSE IF c = CodeElementBreak
             THEN MergeFromDropAtBreak(ans, code, i + 1, ans_out, code_out)
             ELSE MergeFromDropAtBreak(ans, code, i + 1,
                                       Append(ans_out, a), Append(code_out, c))

\* l.784-801: the loop over merged from index i on. The result carries err:
\* "" or the exception raised.
RECURSIVE MergeFrom(_, _, _, _, _)
MergeFrom(ans, code, i, ans_out, code_out) ==
    IF i > Min(Len(ans), Len(code))
    THEN [err |-> "", ans |-> ans_out, code |-> code_out]
    ELSE LET a == ans[i]
             c == code[i]
         IN  IF a = PageBreak \/ c = PageBreak
             THEN IF a = PageBreak /\ c = PageBreak
                  THEN MergeFrom(ans, code, i + 1, ans_out, code_out)
                  ELSE [err |-> "AssertionError: page break mismatch",
                        ans |-> ans_out, code |-> code_out]
             ELSE IF c = CodeElementBreak
             THEN IF ans_out = <<>>
                  THEN [err |-> "IndexError", ans |-> ans_out, code |-> code_out]
                  ELSE MergeFrom(ans, code, i + 1,
                         [ans_out EXCEPT ![Len(ans_out)] =
                             StrOf(JoinSpace(<<@.v, a.v>>))],
                         code_out)
             ELSE MergeFrom(ans, code, i + 1,
                            Append(ans_out, a), Append(code_out, c))

\* An element e lies in the numeric column of heading_elem (l.834-844).
InNumericColumn(heading, heading_elem, e) ==
    IF heading = FREQ
    THEN heading_elem.left < e.left /\ e.left < FREQ_RIGHT_POS - POS_BUFFER
    ELSE heading_elem.right - POS_TOL < e.right
         /\ e.right < heading_elem.right + POS_TOL

\* l.818-844 for one heading of [FREQ, WEIGHTED, PERC]: the texts collected
CollectNumeric(u, heading) ==
    LET heading_elem == get_elem_by_text(u, FieldValue(heading))
        keep == {i \in 1..Len(u) :
                    /\ ~(u[i].top < heading_elem.top
                         \/ Contains(FieldValue(heading), u[i].text))
                    /\ InNumericColumn(heading, heading_elem, u[i])}
    IN  [k \in 1..Cardinality(keep) |->
            u[CHOOSE i \in keep : Cardinality({j \in keep : j <= i}) = k].text]

\* l.849: flatten([split_and_strip(e) for e in v]) for a list of strings
SplitFlatten(v) == Concat([i \in 1..Len(v) |-> split_and_strip(v[i])])

\* sum(map(int, col)) and sum(map(float, col))
RECURSIVE SumInt(_)
SumInt(col) == IF col = <<>> THEN 0 ELSE IntOf(Head(col)) + SumInt(Tail(col))
RECURSIVE SumFloat(_)
SumFloat(col) == IF col = <<>> THEN 0 ELSE FloatOf(Head(col)) + SumFloat(Tail(col))

Abs(x) == IF x < 0 THEN -x ELSE x

\* TOTAL_CHECK_TYPE_FUNCS[k] is defined on s (l.688-690).
TypeOk(k, s) == IF k = PERC THEN FloatOk(s) ELSE IntOk(s)

\* l.886-888: diff = round(abs(s - t), 2), in hundredths
TotalDiff(k, col, total) ==
    IF k = PERC THEN Round2(Abs(SumFloat(col) - FloatOf(total)))
    ELSE 100 * Abs(SumInt(col) - IntOf(total))

\* TOTAL_TOLS with 1 for the frequency as well.
TotalTolFreqOne(k) == CASE k = FREQ -> 100 [] k = WEIGHTED -> 100 [] k = PERC -> 20

\* TOTAL_TOLS with 2 for the weighted frequency.
TotalTolWeightedTwo(k) ==
    CASE k = FREQ -> 0 [] k = WEIGHTED -> 200 [] k = PERC -> 20

\* TOTAL_TOLS with 0.3 for the percentage.
TotalTolPercLoose(k) == CASE k = FREQ -> 0 [] k = WEIGHTED -> 100 [] k = PERC -> 30

\* l.694: TOTAL_TOLS = {FREQ: 0, WEIGHTED: 1, PERC: 0.2}, in hundredths
TotalTol(k) == CASE k = FREQ -> 0 [] k = WEIGHTED -> 100 [] k = PERC -> 20

\* A check of the totals that never fails.
TotalWithinAlways(k, col, total) == TRUE

\* l.889-890: assert diff <= tol
TotalWithin(k, col, total) == TotalDiff(k, col, total) <= TotalTol(k)

----------------------------------------------------------------------------
(* The units get_answer_fields is run on *)

\* A text box of the page.
Box(left, top, width, text) == Element(TEXT_TYPE, left, top, width, 10, text)

\* The heading row of an answer table.
HeadingBox(name, top) ==
    CASE name = ANS -> Box(36, top, 100, V_answer_categories)
      [] name = CODE -> Box(300, top, 30, V_code)
      [] name = FREQ -> Box(340, top, 40, V_frequency)
      [] name = WEIGHTED -> Box(400, top, 80, V_weighted_frequency)
      [] name = PERC -> Box(500, top, 10, V_percent)

Headings == {ANS, CODE, FREQ, WEIGHTED, PERC}

\* Boxes of the category column (left-aligned to its heading) and of the code
\* column (right-aligned to its heading): one box of two categories, one of
\* two categories the first of which wraps onto a second line (its codes then
\* come as two boxes), one category and code after a page break, and the
\* headings repeated by the page break.
CatBox(top, text) == Box(36, top, 100, text)
CodeBox(top, text) == Box(320, top, 10, text)

CatCodeBoxes ==
    {CatBox(112, <<"Y", "e", "s", "\n", "N", "o">>),
     CatBox(112, <<"N", "o", ",", "\n", "s", "u", "r", "e", "\n", "M", "a", "y">>),
     CatBox(160, <<"O", "t", "h">>),
     CodeBox(112, <<"1", "\n", "2">>),
     CodeBox(112, <<"1">>),
     CodeBox(136, <<"2">>),
     CodeBox(160, <<"3">>),
     HeadingBox(ANS, 148),
     HeadingBox(CODE, 148)}

\* Boxes of the three numeric columns; the last line of a column is the
\* printed total.
FreqBox(top, text) == Box(350, top, 20, text)
WeightedBox(top, text) == Box(450, top, 30, text)
PercBox(top, text) == Box(490, top, 20, text)

FreqTexts ==
    {<<"3", "0", "\n", "2", "0", "\n", "5", "0">>,
     <<"3", "0", "\n", "2", "0", "\n", "5", "1">>,
     <<"1", ",", "0", "3", "0", "\n", "2", "0", "\n", "1", ",", "0", "5", "0">>,
     <<"3", "x", "\n", "2", "0", "\n", "5", "0">>,
     <<"5", "0", "\n", "5", "0">>,
     <<"0">>}

WeightedTexts ==
    {<<"3", "0", "0", "\n", "2", "0", "0", "\n", "5", "0", "0">>,
     <<"3", "0", "0", "\n", "2", "0", "0", "\n", "5", "0", "1">>,
     <<"3", "0", "0", "\n", "2", "0", "0", "\n", "4", "9", "8">>,
     <<"5", "0", "0", "\n", "5", "0", "0">>,
     <<"0">>}

PercTexts ==
    {<<"6", "0", ".", "0", "\n", "4", "0", ".", "0", "\n", "1", "0", "0", ".", "0">>,
     <<"6", "0", ".", "1", "\n", "4", "0", ".", "1", "\n", "1", "0", "0", ".", "0">>,
     <<"6", "0", ".", "0", "0", "4", "\n", "4", "0", ".", "2", "\n", "1", "0", "0", ".", "0">>,
     <<"6", "0", ".", "2", "\n", "4", "0", ".", "1", "\n", "1", "0", "0", ".", "0">>,
     <<"1", "0", "0", ".", "0", "\n", "1", "0", "0", ".", "0">>,
     <<"0", ".", "0">>}

\* A column is one box, or no box at all.
OneOrNone(S) == {{b} : b \in S} \cup {{}}

NumericChoices ==
    {f \cup w \cup q :
        f \in OneOrNone({FreqBox(112, t) : t \in FreqTexts}),
        w \in OneOrNone({WeightedBox(112, t) : t \in WeightedTexts}),
        q \in OneOrNone({PercBox(112, t) : t \in PercTexts})}

\* Two rows and their totals in one box per column.
NumericTwoRows ==
    {FreqBox(112, <<"3", "0", "\n", "2", "0", "\n", "5", "0">>),
     WeightedBox(112, <<"3", "0", "0", "\n", "2", "0", "0", "\n", "5", "0", "0">>),
     PercBox(112, <<"6", "0", ".", "0", "\n", "4", "0", ".", "0", "\n", "1", "0", "0", ".", "0">>)}

\* Three rows over a page break: two rows, the numeric headings again, then
\* the third row and the totals.
NumericThreeRows ==
    {FreqBox(112, <<"3", "0", "\n", "2", "0">>),
     WeightedBox(112, <<"3", "0", "0", "\n", "2", "0", "0">>),
     PercBox(112, <<"5", "0", ".", "0", "\n", "3", "3", ".", "3">>),
     HeadingBox(FREQ, 148), HeadingBox(WEIGHTED, 148), HeadingBox(PERC, 148),
     FreqBox(160, <<"1", "0", "\n", "6", "0">>),
     WeightedBox(160, <<"1", "0", "0", "\n", "6", "0", "0">>),
     PercBox(160, <<"1", "6", ".", "8", "\n", "1", "0", "0", ".", "0">>)}

AllHeadings == {HeadingBox(h, 100) : h \in Headings}

\* A category box whose first line holds the word of the code heading.
CodeWordCatBox ==
    CatBox(112, <<"C", "o", "d", "e", " ", "x", "\n", "N", "o">>)

\* The sets of boxes a unit is made of: every choice of category and code
\* boxes with well-formed numeric columns; every choice of numeric columns
\* beside a two-row table; a table that lacks one heading; a two-row table
\* with a category that holds the word of the code heading.
TableBoxSets ==
    {AllHeadings \cup cc \cup n :
        cc \in SUBSET CatCodeBoxes, n \in {NumericTwoRows, NumericThreeRows}}
    \cup {AllHeadings
            \cup {CatBox(112, <<"Y", "e", "s", "\n", "N", "o">>),
                  CodeBox(112, <<"1", "\n", "2">>)}
            \cup n : n \in NumericChoices}
    \cup {(AllHeadings \ {HeadingBox(h, 100)})
            \cup {CatBox(112, <<"Y", "e", "s", "\n", "N", "o">>),
                  CodeBox(112, <<"1", "\n", "2">>)}
            \cup NumericTwoRows : h \in Headings}
    \cup {AllHeadings
            \cup {CodeWordCatBox, CodeBox(112, <<"1", "\n", "2">>)}
            \cup NumericTwoRows}

\* The boxes of S as a list in some order.
RECURSIVE SeqOf(_)
SeqOf(S) ==
    IF S = {} THEN <<>> ELSE LET x == CHOOSE x \in S : TRUE
                            IN  <<x>> \o SeqOf(S \ {x})

\* A unit is a slice of the sorted element list (l.233-234, l.259-266).
UnitOf(S) == SortElements(SeqOf(S))

\* l.696-700
OutInit == [k \in {ANS, CODE, FREQ, WEIGHTED, PERC} |-> <<>>]

InitTable ==
    /\ pc = "called"
    /\ unit \in {UnitOf(S) : S \in TableBoxSets}
    /\ out = OutInit
    /\ err = ""
    /\ IdleGroup /\ IdleHyph /\ IdleMain /\ IdleCall /\ IdleSoup
    /\ IdleView

notTable == <<groupVars, hyphVars, mainVars, callVars, soupVars, viewVars>>

\* The outcome of a step of get_answer_fields: the exception it raises, or
\* "" and the dict out as the step leaves it.
Raises(e, o) == [err |-> e, out |-> o]
Gives(o) == [err |-> "", out |-> o]

\* l.705-735; get_elem_by_text gives None for a heading that is not there,
\* and None.top raises AttributeError
StepCollect(u, o) ==
    IF \E h \in {ANS, CODE} : get_elem_by_text(u, FieldValue(h)) = None
    THEN Raises("AttributeError", o)
    ELSE Gives([o EXCEPT ![ANS] = CollectColumn(u, ANS),
                         ![CODE] = CollectColumn(u, CODE)])

\* l.740-749
StepBreakCodes(u, o) == Gives([o EXCEPT ![CODE] = InsertCodeBreaks(@)])

\* The two token counts of l.754 and l.758 agree.
CountsAgree(o) == SumLen(o[ANS]) = SumLen(o[CODE])

\* l.753-773
StepCrossCheck(u, o) ==
    IF CountsAgree(o) THEN Gives(o)
    ELSE Raises("AssertionError: answer categories and code do not match", o)

\* l.775-776
StepFlatten(u, o) ==
    Gives([o EXCEPT ![ANS] = flatten(@), ![CODE] = flatten(@)])

\* l.781-815
StepMerge(u, o) ==
    LET m == MergeFrom(o[ANS], o[CODE], 1, <<>>, <<>>)
    IN  IF m.err # "" THEN Raises(m.err, o)
        ELSE IF Len(m.ans) # Len(m.code)
        THEN Raises("AssertionError: do not match after syncing", o)
        ELSE Gives([o EXCEPT ![ANS] = m.ans, ![CODE] = m.code])

\* l.818-844
StepCollectNumerics(u, o) ==
    IF \E h \in {FREQ, WEIGHTED, PERC} : get_elem_by_text(u, FieldValue(h)) = None
    THEN Raises("AttributeError", o)
    ELSE Gives([o EXCEPT ![FREQ] = CollectNumeric(u, FREQ),
                         ![WEIGHTED] = CollectNumeric(u, WEIGHTED),
                         ![PERC] = CollectNumeric(u, PERC)])

\* l.849 for the code column, whose entries are strings by now
SplitFlattenCode(v) ==
    LET parts == SplitFlatten([i \in 1..Len(v) |-> v[i].v])
    IN  [i \in 1..Len(parts) |-> StrOf(parts[i])]

\* l.847-864
StepSplitNumerics(u, o) ==
    LET o2 == [o EXCEPT ![CODE] = SplitFlattenCode(@),
                        ![FREQ] = SplitFlatten(@),
                        ![WEIGHTED] = SplitFlatten(@),
                        ![PERC] = SplitFlatten(@)]
    IN  IF Len(o2[FREQ]) = Len(o2[WEIGHTED]) /\ Len(o2[WEIGHTED]) = Len(o2[PERC])
        THEN Gives(o2)
        ELSE Raises("AssertionError: columns have different lengths", o)

\* l.867-875
StepCleanup(u, o) ==
    Gives([k \in DOMAIN o |->
            IF k \in {ANS, CODE}
            THEN [i \in 1..Len(o[k]) |->
                    StrOf(replace_characters(o[k][i].v, FAULTY_CHARACTER_MAPPER))]
            ELSE IF k \in {FREQ, WEIGHTED}
            THEN [i \in 1..Len(o[k]) |-> replace_characters(o[k][i], COMMA_MAPPER)]
            ELSE o[k]])

\* lst.pop(): the last entry, and the list without it
Front(lst) == SubSeq(lst, 1, Len(lst) - 1)
Last(lst) == lst[Len(lst)]

\* l.878-881; pop of an empty list raises IndexError
StepPopTotals(u, o) ==
    IF \E k \in {FREQ, WEIGHTED, PERC} : o[k] = <<>>
    THEN Raises("IndexError", o)
    ELSE Gives([k \in DOMAIN o \cup {TOTAL} |->
                    IF k = TOTAL
                    THEN [j \in {FREQ, WEIGHTED, PERC} |-> Last(o[j])]
                    ELSE IF k \in {FREQ, WEIGHTED, PERC} THEN Front(o[k])
                    ELSE o[k]])

ValidationError(k) ==
    CASE k = FREQ -> "AssertionError: frequency total does not match sum"
      [] k = WEIGHTED ->
            "AssertionError: weighted_frequency total does not match sum"
      [] k = PERC -> "AssertionError: percent total does not match sum"

\* l.885-897 for one k: the exception raised, "" for none. int() and float()
\* raise ValueError on what is not a number.
CheckTotal(o, k) ==
    IF \/ \E i \in 1..Len(o[k]) : ~TypeOk(k, o[k][i])
       \/ ~TypeOk(k, o[TOTAL][k])
    THEN "ValueError"
    ELSE IF ~TotalWithin(k, o[k], o[TOTAL][k]) THEN ValidationError(k)
    ELSE ""

\* l.884-899: the loop stops at the first k that raises
StepValidate(u, o) ==
    LET e == IF CheckTotal(o, FREQ) # "" THEN CheckTotal(o, FREQ)
             ELSE IF CheckTotal(o, WEIGHTED) # "" THEN CheckTotal(o, WEIGHTED)
             ELSE CheckTotal(o, PERC)
    IN  IF e # "" THEN Raises(e, o) ELSE Gives(o)

\* The steps of get_answer_fields, in order.
Step(n, u, o) ==
    CASE n = 1 -> StepCollect(u, o)
      [] n = 2 -> StepBreakCodes(u, o)
      [] n = 3 -> StepCrossCheck(u, o)
      [] n = 4 -> StepFlatten(u, o)
      [] n = 5 -> StepMerge(u, o)
      [] n = 6 -> StepCollectNumerics(u, o)
      [] n = 7 -> StepSplitNumerics(u, o)
      [] n = 8 -> StepCleanup(u, o)
      [] n = 9 -> StepPopTotals(u, o)
      [] n = 10 -> StepValidate(u, o)

\* get_answer_fields run from step n on: the exception it raises, or "" and
\* the dict it returns. An exception ends the run; otherwise step n is run on
\* the dict that r, the outcome of the step before, left.
RECURSIVE RunFrom(_, _, _)
RunOn(r, n, u) == IF r.err # "" THEN r ELSE RunFrom(n, u, r.out)
RunFrom(n, u, o) ==
    IF n > 10 THEN Gives(o) ELSE RunOn(Step(n, u, o), n + 1, u)

\* l.650-899
get_answer_fields(u) == RunFrom(1, u, OutInit)

\* The outcome r of a step of get_answer_fields: on to position q, or out of
\* the function by the exception.
Take(r, q) ==
    /\ IF r.err # ""
       THEN pc' = "raised" /\ err' = r.err /\ UNCHANGED out
       ELSE pc' = q /\ out' = r.out /\ UNCHANGED err
    /\ UNCHANGED <<unit, notTable>>

CollectAnsCode ==
    /\ pc = "called"
    /\ Take(StepCollect(unit, out), "collected")
BreakCodes ==
    /\ pc = "collected"
    /\ Take(StepBreakCodes(unit, out), "marked")
CrossCheck ==
    /\ pc = "marked"
    /\ Take(StepCrossCheck(unit, out), "checked")
Flatten ==
    /\ pc = "checked"
    /\ Take(StepFlatten(unit, out), "flattened")
Merge ==
    /\ pc = "flattened"
    /\ Take(StepMerge(unit, out), "merged")
CollectNumerics ==
    /\ pc = "merged"
    /\ Take(StepCollectNumerics(unit, out), "numeric")
SplitNumerics ==
    /\ pc = "numeric"
    /\ Take(StepSplitNumerics(unit, out), "split")
Cleanup ==
    /\ pc = "split"
    /\ Take(StepCleanup(unit, out), "cleaned")
PopTotals ==
    /\ pc = "cleaned"
    /\ Take(StepPopTotals(unit, out), "popped")
Validate ==
    /\ pc = "popped"
    /\ Take(StepValidate(unit, out), "returned")

NextTable ==
    \/ CollectAnsCode \/ BreakCodes \/ CrossCheck \/ Flatten \/ Merge
    \/ CollectNumerics \/ SplitNumerics \/ Cleanup \/ PopTotals \/ Validate

SpecTable == InitTable /\ [][NextTable]_vars

----------------------------------------------------------------------------
(* Claims about get_answer_fields, checked under SpecTable *)

\* C2: when get_answer_fields returns, answer_categories, code, frequency,
\* weighted_frequency and percent have the same length.
C2_FiveColumnsSameLength ==
    pc = "returned" =>
        /\ Len(out[ANS]) = Len(out[CODE])
        /\ Len(out[CODE]) = Len(out[FREQ])
        /\ Len(out[FREQ]) = Len(out[WEIGHTED])
        /\ Len(out[WEIGHTED]) = Len(out[PERC])

\* C3: when get_answer_fields returns, the integer frequencies of the data
\* rows sum to the printed total.frequency exactly.
C3_FrequencySumIsTotal ==
    pc = "returned" => SumInt(out[FREQ]) = IntOf(out[TOTAL][FREQ])

\* The rows "1,030" and "20" and the total "1,050" were returned as 1030, 20
\* and 1050.
C3_Witness ==
    /\ pc = "returned"
    /\ out[FREQ] = <<<<"1", "0", "3", "0">>, <<"2", "0">>>>
    /\ out[TOTAL][FREQ] = <<"1", "0", "5", "0">>

\* C4: when get_answer_fields returns, the integer weighted frequencies of
\* the data rows sum to the printed total.weighted_frequency, give or take 1.
C4_WeightedSumWithinOne ==
    pc = "returned" =>
        /\ SumInt(out[WEIGHTED]) - IntOf(out[TOTAL][WEIGHTED]) <= 1
        /\ IntOf(out[TOTAL][WEIGHTED]) - SumInt(out[WEIGHTED]) <= 1

\* A table was returned whose weighted frequencies sum to 500 against a
\* printed total of 501.
C4_Witness ==
    /\ pc = "returned"
    /\ SumInt(out[WEIGHTED]) = 500
    /\ IntOf(out[TOTAL][WEIGHTED]) = 501

\* round(x, 2) of any x given in thousandths, as hundredths.
RoundSigned2(x) == IF x < 0 THEN -Round2(-x) ELSE Round2(x)

\* C5: when get_answer_fields returns, the sum of the percentages of the data
\* rows less the printed total.percent, rounded to two decimals, is at most 0.2
\* in absolute value.
C5_PercentSumWithinTolerance ==
    pc = "returned" =>
        Abs(RoundSigned2(SumFloat(out[PERC]) - FloatOf(out[TOTAL][PERC]))) <= 20

\* A table was returned whose percentages sum to 100.204 against a printed
\* total of 100.0.
C5_Witness ==
    /\ pc = "returned"
    /\ SumFloat(out[PERC]) = 100204
    /\ FloatOf(out[TOTAL][PERC]) = 100000

\* Column k of o is made of numbers, and so is its total.
ColumnParses(o, k) ==
    /\ \A i \in 1..Len(o[k]) : IF k = PERC THEN FloatOk(o[k][i]) ELSE IntOk(o[k][i])
    /\ IF k = PERC THEN FloatOk(o[TOTAL][k]) ELSE IntOk(o[TOTAL][k])

\* The sum of column k of o differs from its printed total by more than the
\* column's tolerance, the difference taken to two decimals as in C5.
ExceedsTolerance(o, k) ==
    CASE k = FREQ -> Abs(SumInt(o[k]) - IntOf(o[TOTAL][k])) > 0
      [] k = WEIGHTED -> Abs(SumInt(o[k]) - IntOf(o[TOTAL][k])) > 1
      [] k = PERC ->
            Abs(RoundSigned2(SumFloat(o[k]) - FloatOf(o[TOTAL][k]))) > 20

HeadingBoxes(u, h) ==
    {i \in 1..Len(u) :
        /\ Contains(FieldValue(h), u[i].text)
        /\ u[i].top >= get_elem_by_text(u, FieldValue(h)).top}

\* The heading of h occurs twice in u: once, and once more below.
RepeatsOnce(u, h) ==
    /\ get_elem_by_text(u, FieldValue(h)) # None
    /\ Cardinality(HeadingBoxes(u, h)) = 2

PageBreaksIn(lst) == {i \in 1..Len(lst) : lst[i] = PageBreak}

\* The number of data rows of u: the lines of the boxes below the code
\* heading, right-aligned to it, that are not headings.
RECURSIVE SumLines(_, _)
SumLines(u, I) ==
    IF I = {} THEN 0
    ELSE LET i == CHOOSE i \in I : TRUE
         IN  Len(Split(u[i].text, "\n")) + SumLines(u, I \ {i})
DataRows(u) ==
    LET h == get_elem_by_text(u, V_code)
    IN  SumLines(u, {i \in 1..Len(u) :
            /\ u[i].top >= h.top
            /\ ~Contains(V_code, u[i].text)
            /\ h.right - 10 < u[i].right /\ u[i].right < h.right + 10})

\* C7: in a unit whose category heading and code heading each repeat once,
\* the category and the code sequence each hold exactly one PageBreak; when
\* the merge goes through, the two PageBreaks stand at the same position of
\* the flattened sequences, and the final answer_categories and code hold
\* strings only, one per data row.
C7_OnePageBreakPairDropped ==
    (/\ pc \notin {"called", "raised"}
     /\ RepeatsOnce(unit, ANS) /\ RepeatsOnce(unit, CODE))
    =>
    /\ pc \in {"collected", "marked", "checked", "flattened"} =>
        /\ Cardinality(PageBreaksIn(out[ANS])) = 1
        /\ Cardinality(PageBreaksIn(out[CODE])) = 1
    /\ pc \notin {"collected", "marked", "checked", "flattened"} =>
        /\ LET a == flatten(CollectColumn(unit, ANS))
               c == flatten(InsertCodeBreaks(CollectColumn(unit, CODE)))
           IN  /\ Cardinality(PageBreaksIn(a)) = 1
               /\ PageBreaksIn(a) = PageBreaksIn(c)
        /\ \A i \in 1..Len(out[ANS]) : out[ANS][i].kind = "str"
        /\ \A i \in 1..Len(out[CODE]) : out[CODE][i].kind = "str"
        /\ Len(out[ANS]) = DataRows(unit)
        /\ Len(out[CODE]) = DataRows(unit)

\* A table of two rows, a page break and a third row was returned.
C7_Witness ==
    /\ pc = "returned"
    /\ RepeatsOnce(unit, ANS) /\ RepeatsOnce(unit, CODE)
    /\ Len(out[ANS]) = 3
    /\ out[CODE] = <<StrOf(<<"1">>), StrOf(<<"2">>), StrOf(<<"3">>)>>

----------------------------------------------------------------------------
(* Claims about the alignment of categories and codes, checked under        *)
(* SpecTable                                                                *)

\* The lines and the markers of a collected sequence.
LinesIn(lst) ==
    UNION {{<<i, j>> : j \in 1..Len(lst[i].v)} :
              i \in {i \in 1..Len(lst) : lst[i].kind = "list"}}
MarkersIn(lst) ==
    {i \in 1..Len(lst) : lst[i] \in {PageBreak, CodeElementBreak}}
TokenCount(lst) == Cardinality(LinesIn(lst)) + Cardinality(MarkersIn(lst))

\* C16: with the markers in the code sequence, the cross-check passes the two
\* sequences on untouched when the lines and markers of the categories are as
\* many as those of the codes, and otherwise raises the alignment error, after
\* which get_answer_fields takes no further step and returns no table.
C16_TokenCountsMustAgree ==
    [][/\ pc = "marked" =>
            IF TokenCount(out[ANS]) = TokenCount(out[CODE])
            THEN pc' = "checked" /\ out' = out
            ELSE /\ pc' = "raised"
                 /\ err' = "AssertionError: answer categories and code do not match"
       /\ pc = "raised" => pc' = "raised"]_vars

\* A unit whose category box holds two lines against two code boxes of one
\* line each: two tokens against three, the marker between the code boxes
\* counted, and the alignment error raised.
C16_Witness ==
    /\ pc = "raised"
    /\ err = "AssertionError: answer categories and code do not match"
    /\ \E i \in 1..Len(out[CODE]) : out[CODE][i] = CodeElementBreak
    /\ TokenCount(out[ANS]) + 1 = TokenCount(out[CODE])

\* The positions of the code tokens that are no marker, and the k-th of them.
NonMarkers(code) ==
    {p \in 1..Len(code) : code[p] \notin {PageBreak, CodeElementBreak}}
KthNonMarker(code, k) ==
    CHOOSE p \in NonMarkers(code) :
        Cardinality({q \in NonMarkers(code) : q <= p}) = k

\* The category at position p with, after a single space each, the
\* categories at the positions that follow p for as long as the code token
\* there is a CodeElementBreak.
RECURSIVE JoinedCategory(_, _, _)
JoinedCategory(ans, code, p) ==
    ans[p].v \o (IF p < Len(code) /\ code[p + 1] = CodeElementBreak
                 THEN <<" ">> \o JoinedCategory(ans, code, p + 1)
                 ELSE <<>>)

\* C19: when the merge of the flattened sequences goes through, it emits one
\* code and one category per code token that is no marker: the code is that
\* token, and the category is the one at its position with the categories at
\* the CodeElementBreak positions that follow joined on, a single space
\* before each; no code is emitted for a CodeElementBreak.
C19_BreakJoinsOntoPreviousCategory ==
    [][(pc = "flattened" /\ pc' = "merged") =>
        LET ans == out[ANS]
            code == out[CODE]
            n == Cardinality(NonMarkers(code))
        IN  /\ Len(out'[ANS]) = n
            /\ Len(out'[CODE]) = n
            /\ \A k \in 1..n :
                /\ out'[CODE][k] = code[KthNonMarker(code, k)]
                /\ out'[ANS][k] =
                     StrOf(JoinedCategory(ans, code, KthNonMarker(code, k)))]_vars

\* The category "No, sure" printed on two lines before "May", with the codes
\* in two boxes: three category lines against "1", a CodeElementBreak and "2"
\* become the categories "No, sure" and "May" and the codes "1" and "2".
C19_Witness ==
    /\ pc = "merged"
    /\ out[ANS] = <<StrOf(<<"N", "o", ",", " ", "s", "u", "r", "e">>),
                    StrOf(<<"M", "a", "y">>)>>
    /\ out[CODE] = <<StrOf(<<"1">>), StrOf(<<"2">>)>>

\* C20: the break-repair step leaves the collected code entries in their
\* order and puts CodeElementBreaks between them only: one between two
\* consecutive entries when neither is a PageBreak, none when either is, and
\* so none before the first entry, after the last or next to a PageBreak.
C20_BreakBetweenEntriesUnlessPageBreak ==
    [][(pc = "collected" /\ pc' = "marked") =>
        LET code == out[CODE]
            marked == out'[CODE]
            n == Len(marked)
        IN  /\ SelectSeq(marked, LAMBDA e : e # CodeElementBreak) = code
            /\ \A i \in 1..n : marked[i] = CodeElementBreak =>
                /\ 1 < i /\ i < n
                /\ marked[i - 1] \notin {PageBreak, CodeElementBreak}
                /\ marked[i + 1] \notin {PageBreak, CodeElementBreak}
            /\ \A i \in 1..(n - 1) :
                (marked[i] # CodeElementBreak /\ marked[i + 1] # CodeElementBreak)
                    => (marked[i] = PageBreak \/ marked[i + 1] = PageBreak)]_vars

\* Two code boxes, the headings repeated by a page break, and a third code
\* box: a CodeElementBreak between the first two entries, and none on either
\* side of the PageBreak.
C20_Witness ==
    /\ pc = "marked"
    /\ Len(out[CODE]) = 5
    /\ out[CODE][2] = CodeElementBreak
    /\ out[CODE][4] = PageBreak
    /\ \A i \in {1, 3, 5} : out[CODE][i].kind = "list"

\* The elements of u that repeat the heading of h in its column: at or below
\* the first heading, holding the heading text, aligned to the heading as
\* the entries of the column are, and not the first heading itself.
RepeatedHeadings(u, h) ==
    {i \in HeadingBoxes(u, h) :
        /\ u[i] # get_elem_by_text(u, FieldValue(h))
        /\ InColumn(h, get_elem_by_text(u, FieldValue(h)), u[i])}

\* C21: the sequence collected for the category column and the one for the
\* code column hold one PageBreak for each repeat of the heading in that
\* column, and none for an element that holds the heading text elsewhere.
C21_PageBreakPerRepeatedHeading ==
    pc = "collected" =>
        \A h \in {ANS, CODE} :
            Cardinality(PageBreaksIn(out[h]))
                = Cardinality(RepeatedHeadings(unit, h))

\* C25: sequences that passed the cross-check are of equal length once
\* flattened, and their merge either goes through or fails on page breaks
\* that do not line up; it never meets a CodeElementBreak with no category
\* emitted yet.
C25_MergeNeverJoinsOntoNothing ==
    [][pc = "flattened" =>
        /\ Len(out[ANS]) = Len(out[CODE])
        /\ \/ pc' = "merged"
           \/ /\ pc' = "raised"
              /\ err' = "AssertionError: page break mismatch"]_vars

\* Three category lines in one box, the category heading again and a fourth
\* category against three code boxes: five tokens each, and the merge fails
\* where the PageBreak of the categories meets a CodeElementBreak.
C25_Witness ==
    /\ pc = "raised"
    /\ err = "AssertionError: page break mismatch"
    /\ Len(out[ANS]) = 5
    /\ Len(out[CODE]) = 5
    /\ out[ANS][4] = PageBreak
    /\ out[CODE][4] = CodeElementBreak
    /\ out[CODE][2] = CodeElementBreak

----------------------------------------------------------------------------
(* The scalar fields of a unit (l.324-617) *)

\* The outcome of a call: the exception it raises, or "" and the value it
\* returns.
Throws(e) == [err |-> e, val |-> <<>>]
Returns(v) == [err |-> "", val |-> v]

\* [e.text for e in es]
Texts(es) == [i \in 1..Len(es) |-> es[i].text]

\* get_variable_name with an assert that lets several elements through: the
\* first one found is returned.
get_variable_name_first(u) ==
    LET left_elem == get_elem_by_text(u, V_variable_name)
        right_elem == get_elem_by_text(u, V_length)
    IN  IF left_elem = None \/ right_elem = None THEN Throws("AttributeError")
        ELSE LET l == left_elem.left
                 t == left_elem.top
                 r == right_elem.left
                 Between(e) == /\ l < e.left /\ e.left < r
                               /\ t - 5 < e.top /\ e.top < t + 5
                 found == Texts(SelectSeq(u, Between))
             IN  IF Len(found) < 1
                 THEN Throws("AssertionError: found more than one element")
                 ELSE Returns(found[1])

\* l.324-352; get_elem_by_text gives None for a label that is not there, and
\* None.left raises AttributeError
get_variable_name(u) ==
    LET left_elem == get_elem_by_text(u, V_variable_name)
        right_elem == get_elem_by_text(u, V_length)
    IN  IF left_elem = None \/ right_elem = None THEN Throws("AttributeError")
        ELSE LET l == left_elem.left
                 t == left_elem.top
                 r == right_elem.left
                 Between(e) == /\ l < e.left /\ e.left < r
                               /\ t - 5 < e.top /\ e.top < t + 5
                 found == Texts(SelectSeq(u, Between))
             IN  IF Len(found) # 1
                 THEN Throws("AssertionError: found more than one element")
                 ELSE Returns(found[1])

\* l.355-378: the text after the first colon of the label's box, stripped
AfterColon(u, label) ==
    LET e == get_elem_by_text(u, label)
    IN  IF e = None THEN Throws("AttributeError")
        ELSE Returns(Strip(Split(e.text, ":")[2]))

get_length(u) == AfterColon(u, V_length)
get_position(u) == AfterColon(u, V_position)

TEXT_LEFT_POS == 178
TEXT_LEFT_BUFFER == 5
TEXT_RIGHT_POS == 567
top_tol == 10
bottom_buffer == 10

\* l.428-433 and l.525-532: the texts joined, cleaned and dehyphenated
JoinedText(texts) ==
    replace_hyphenated_words(
        JoinSpace(split_and_strip(
            replace_characters(JoinSpace(texts), FAULTY_CHARACTER_MAPPER))))

\* l.381-433
get_middle_section(u, top, bottom) ==
    LET top_elem == get_elem_by_text(u, top)
        bottom_elem == get_elem_by_text(u, bottom)
    IN  IF top_elem = None \/ bottom_elem = None THEN Throws("AttributeError")
        ELSE LET l == TEXT_LEFT_POS - TEXT_LEFT_BUFFER
                 r == TEXT_LEFT_POS + TEXT_LEFT_BUFFER
                 t == top_elem.top - top_tol
                 b == bottom_elem.top - bottom_buffer
                 Inside(e) == /\ t < e.top /\ e.top < b
                              /\ l < e.left /\ e.left < r
             IN  Returns(JoinedText(Texts(SelectSeq(u, Inside))))

\* lst.remove(e): lst without its first entry equal to e
RECURSIVE RemoveFirst(_, _)
RemoveFirst(lst, e) ==
    IF lst = <<>> THEN <<>>
    ELSE IF Head(lst) = e THEN Tail(lst)
    ELSE <<Head(lst)>> \o RemoveFirst(Tail(lst), e)

\* l.496-502: one Element per line of e, each 10 below the one before
LineElements(e) ==
    LET lines == Split(e.text, "\n")
    IN  [i \in 1..Len(lines) |->
            Element(e.elem_type, e.left, e.top + ((i - 1) * 10),
                    e.width, e.height, Strip(lines[i]))]

\* l.489-502: the loop over out_copy from index i on
RECURSIVE BreakLines(_, _, _)
BreakLines(lst, out_copy, i) ==
    IF i > Len(out_copy) THEN lst
    ELSE LET e == out_copy[i]
         IN  IF Contains(<<"\n">>, e.text)
             THEN BreakLines(RemoveFirst(lst, e) \o LineElements(e),
                             out_copy, i + 1)
             ELSE BreakLines(lst, out_copy, i + 1)

\* l.513-514
LeftAligned(e) ==
    /\ TEXT_LEFT_POS - TEXT_LEFT_BUFFER < e.left
    /\ e.left < TEXT_LEFT_POS + TEXT_LEFT_BUFFER

\* l.483-489: the elements of u inside the band between the two headings
BroadFound(u, top_elem, bottom_elem) ==
    LET t == top_elem.top - top_tol
        b == bottom_elem.top - bottom_buffer
        Inside(e) == /\ t < e.top /\ e.top < b
                     /\ TEXT_LEFT_POS - TEXT_LEFT_BUFFER < e.left
                     /\ e.left < TEXT_RIGHT_POS
    IN  SelectSeq(u, Inside)

\* The first of the left-aligned entries of out_copy at the least distance
\* among them; e itself when none is left-aligned.
ClosestLeftAligned(out_copy, e) ==
    LET L == {j \in 1..Len(out_copy) : LeftAligned(out_copy[j])}
        Dist(j) == Abs(out_copy[j].top - e.top)
    IN  IF L = {} THEN e
        ELSE out_copy[CHOOSE j \in L :
                        /\ \A k \in L : Dist(j) <= Dist(k)
                        /\ \A k \in L : k < j => Dist(k) > Dist(j)]

\* min(out_copy, key=lambda x: abs(x.top - e.top)): the first entry of
\* out_copy at the least distance; out_copy holds e itself
Closest(out_copy, e) ==
    LET Dist(j) == Abs(out_copy[j].top - e.top)
        j == CHOOSE j \in 1..Len(out_copy) :
                /\ \A k \in 1..Len(out_copy) : Dist(j) <= Dist(k)
                /\ \A k \in 1..(j - 1) : Dist(k) > Dist(j)
    IN  out_copy[j]

\* l.513-521: top is reassigned; bottom, set by __post_init__, is not
Realign(lst) ==
    [i \in 1..Len(lst) |->
        IF ~(/\ TEXT_LEFT_POS - TEXT_LEFT_BUFFER < lst[i].left
             /\ lst[i].left < TEXT_LEFT_POS + TEXT_LEFT_BUFFER)
        THEN [lst[i] EXCEPT !.top = Closest(lst, lst[i]).top]
        ELSE lst[i]]

\* The positions in u of the Elements that l.485-489 collect and l.494-496
\* leave in out: those in the band whose text is one line. out holds these
\* very objects, in this order, before the Elements made of the lines of the
\* others.
KeptPositions(u, top_elem, bottom_elem) ==
    {k \in 1..Len(u) :
        /\ BroadFound(<<u[k]>>, top_elem, bottom_elem) # <<>>
        /\ ~Contains(<<"\n">>, u[k].text)}

\* l.521: out[i].top = closest.top assigns to the Element object itself, so
\* an Element of the unit that is still in out is changed in the unit too.
\* The unit as the realigned list re leaves it.
WrittenThrough(u, kept, re) ==
    [k \in 1..Len(u) |->
        IF k \in kept
        THEN [u[k] EXCEPT !.top =
                 re[Cardinality({j \in kept : j <= k})].top]
        ELSE u[k]]

\* The unit as l.483-521 leave it, the headings being there.
RealignedUnitBetween(u, top_elem, bottom_elem) ==
    WrittenThrough(u, KeptPositions(u, top_elem, bottom_elem),
        Realign(BreakLines(BroadFound(u, top_elem, bottom_elem),
                           BroadFound(u, top_elem, bottom_elem), 1)))

\* The unit as get_middle_section_broad leaves it (l.483-521): untouched
\* when a heading is missing, the call raising at l.483-484.
RealignedUnit(u, top, bottom) ==
    IF get_elem_by_text(u, top) = None \/ get_elem_by_text(u, bottom) = None
    THEN u
    ELSE RealignedUnitBetween(u, get_elem_by_text(u, top),
                              get_elem_by_text(u, bottom))

\* l.436-534
get_middle_section_broad(u, top, bottom) ==
    LET top_elem == get_elem_by_text(u, top)
        bottom_elem == get_elem_by_text(u, bottom)
    IN  IF top_elem = None \/ bottom_elem = None THEN Throws("AttributeError")
        ELSE LET left == TEXT_LEFT_POS - TEXT_LEFT_BUFFER
                 right == TEXT_RIGHT_POS
                 t == top_elem.top - top_tol
                 b == bottom_elem.top - bottom_buffer
                 Inside(e) == /\ t < e.top /\ e.top < b
                              /\ left < e.left /\ e.left < right
                 found == SelectSeq(u, Inside)
                 broken == BreakLines(found, found, 1)
                 sorted == SortedBy(SortedBy(Realign(broken), "left"), "top")
             IN  Returns(JoinedText(Texts(sorted)))

\* l.537-617
get_question_name(u) == get_middle_section(u, V_question_name, V_concept)
get_concept(u) == get_middle_section(u, V_concept, V_question_text)
get_question_text(u) ==
    get_middle_section_broad(u, V_question_text, V_universe)
get_universe(u) == get_middle_section(u, V_universe, V_note)
get_note(u) == get_middle_section(u, V_note, V_source)
get_source(u) == get_middle_section(u, V_source, V_answer_categories)

\* l.902-916: the unit with the blank category appended
insert_blank_answer_categories(u) ==
    LET answer_heading == get_elem_by_text(u, V_answer_categories)
    IN  IF answer_heading = None THEN Throws("AttributeError")
        ELSE Returns(Append(u, Element(TEXT_TYPE, answer_heading.left,
                                       answer_heading.top + 10, 10, 10, <<>>)))

----------------------------------------------------------------------------
(* The per-unit loop and the JSON dump (l.931-982) *)

PUMFID == <<"P", "U", "M", "F", "I", "D">>
WTPP == <<"W", "T", "P", "P">>
VERDATE == <<"V", "E", "R", "D", "A", "T", "E">>

\* l.931
NON_ANSWER_VARS == {PUMFID, WTPP}

\* {}, and q[k] = v and q.update(d) on a dict q
EmptyDict == [k \in {} |-> <<>>]
Put(q, k, v) == [x \in DOMAIN q \cup {k} |-> IF x = k THEN v ELSE q[x]]
Update(q, d) ==
    [x \in DOMAIN q \cup DOMAIN d |-> IF x \in DOMAIN d THEN d[x] ELSE q[x]]

\* The keys of l.936-943, in order, and the call behind each.
ScalarNames ==
    <<"variable_name", "length", "position", "question_name", "concept",
      "question_text", "universe", "note">>

Scalar(n, u) ==
    CASE n = 1 -> get_variable_name(u)
      [] n = 2 -> get_length(u)
      [] n = 3 -> get_position(u)
      [] n = 4 -> get_question_name(u)
      [] n = 5 -> get_concept(u)
      [] n = 6 -> get_question_text(u)
      [] n = 7 -> get_universe(u)
      [] n = 8 -> get_note(u)

\* The outcome of the try block for one unit: the exception raised ("" for
\* none), q as far as it was filled, and the unit as it is left.
Outcome(e, q, u) == [err |-> e, q |-> q, unit |-> u]

\* The unit as the n-th call leaves it: get_question_text assigns to the
\* Elements it collects (l.521), the other calls read the unit only.
UnitAfter(n, u) ==
    IF n = 6 THEN RealignedUnit(u, V_question_text, V_universe) ELSE u

\* l.936-943 from the n-th assignment on; r is what the n-th call gave
RECURSIVE ScalarsFrom(_, _, _)
AssignScalar(r, n, u, q) ==
    IF r.err # "" THEN Outcome(r.err, q, u)
    ELSE ScalarsFrom(n + 1, UnitAfter(n, u), Put(q, ScalarNames[n], r.val))
ScalarsFrom(n, u, q) ==
    IF n > Len(ScalarNames) THEN Outcome("", q, u)
    ELSE AssignScalar(Scalar(n, u), n, u, q)

\* l.953: q.update(r), r being what get_answer_fields gave
UpdateWith(r, u, q) ==
    IF r.err # "" THEN Outcome(r.err, q, u)
    ELSE Outcome("", Update(q, r.out), u)

\* l.952-953 with the call of get_answer_fields left out
AnswerFieldsSkipped(u, q) == Outcome("", q, u)

\* l.952-953
AnswerFields(u, q) ==
    IF q["variable_name"] \in NON_ANSWER_VARS THEN Outcome("", q, u)
    ELSE UpdateWith(get_answer_fields(u), u, q)

\* l.950-953; r is what l.950-951 gave: the unit, with the blank category if
\* it was inserted
AfterBlank(r, u, q) ==
    IF r.err # "" THEN Outcome(r.err, q, u) ELSE AnswerFields(r.val, q)

\* l.945-953; r is what l.945-948 gave for the source
AfterSource(r, u, q) ==
    IF r.err # "" THEN Outcome(r.err, q, u)
    ELSE AfterBlank(IF q["variable_name"] = VERDATE
                    THEN insert_blank_answer_categories(u)
                    ELSE Returns(u),
                    u, Put(q, "source", r.val))

\* l.944-953; s is what l.936-943 gave
AfterScalars(s) ==
    IF s.err # "" THEN s
    ELSE AfterSource(IF s.q["variable_name"] \in NON_ANSWER_VARS
                     THEN Returns(<<>>)
                     ELSE get_source(s.unit),
                     s.unit, s.q)

\* l.936-953: the body of the try block
ExtractRecord(u) == AfterScalars(ScalarsFrom(1, u, EmptyDict))

\* An except clause that swallows what the try block raises.
PropagatesNothing(e) == FALSE

\* l.954-957: whatever the try block raises is raised again, out of the
\* script.
Propagates(e) == e # ""

\* The boxes above the answer table of a unit: the labels and their values.
NameBox(name) == Box(120, 4, 50, name)
LabelBoxes ==
    {Box(36, 4, 80, V_variable_name),
     Box(300, 4, 60, V_length \o <<" ", "3">>),
     Box(420, 4, 60, V_position \o <<" ", "1", "2">>),
     Box(36, 16, 80, V_question_name), Box(178, 16, 50, <<"Q", "1">>),
     Box(36, 28, 80, V_concept), Box(178, 28, 50, <<"c">>),
     Box(36, 40, 80, V_question_text),
     Box(178, 40, 50, <<"a", "-", "\n", "b">>), Box(300, 41, 50, <<"-", " ", "d">>),
     Box(36, 52, 80, V_universe), Box(178, 52, 50, <<"u">>),
     Box(36, 64, 80, V_note), Box(178, 64, 50, <<"n">>),
     Box(36, 76, 80, V_source), Box(178, 76, 50, <<"<fi>", "x">>)}

AB == <<"A", "B">>

\* A table of two rows that adds up.
GoodTable ==
    AllHeadings
    \cup {CatBox(112, <<"Y", "e", "s", "\n", "N", "o">>),
          CodeBox(112, <<"1", "\n", "2">>)}
    \cup NumericTwoRows

\* One row with a code and no category, as VERDATE has.
UnnamedCategoryTable ==
    AllHeadings
    \cup {CodeBox(112, <<"1">>),
          FreqBox(112, <<"5", "0", "\n", "5", "0">>),
          WeightedBox(112, <<"5", "0", "0", "\n", "5", "0", "0">>),
          PercBox(112, <<"1", "0", "0", ".", "0", "\n", "1", "0", "0", ".", "0">>)}

\* The units the loop is run on: four that extract (a table, the two
\* variables without a table, the unnamed category), and one for each kind of failure: a frequency total
\* that is off by one, a missing label, two boxes where the name is looked
\* for, and one code for two categories.
MainBoxSets ==
    {LabelBoxes \cup {NameBox(AB)} \cup GoodTable,
     LabelBoxes \cup {NameBox(PUMFID)},
     LabelBoxes \cup {NameBox(WTPP)},
     LabelBoxes \cup {NameBox(VERDATE)} \cup UnnamedCategoryTable,
     LabelBoxes \cup {NameBox(AB)}
        \cup (GoodTable \ {FreqBox(112, <<"3", "0", "\n", "2", "0", "\n", "5", "0">>)})
        \cup {FreqBox(112, <<"3", "0", "\n", "2", "0", "\n", "5", "1">>)},
     (LabelBoxes \ {Box(36, 76, 80, V_source)}) \cup {NameBox(AB)} \cup GoodTable,
     LabelBoxes \cup {NameBox(AB), Box(200, 4, 50, AB)} \cup GoodTable,
     LabelBoxes \cup {NameBox(AB)}
        \cup (GoodTable \ {CodeBox(112, <<"1", "\n", "2">>)})
        \cup {CodeBox(112, <<"1">>)}}

MainUnits == {UnitOf(S) : S \in MainBoxSets}

MaxUnits == 2

\* Lists of at most n units.
RECURSIVE UnitLists(_)
UnitLists(n) ==
    IF n = 0 THEN {<<>>}
    ELSE LET shorter == UnitLists(n - 1)
         IN  shorter \cup {Append(us, u) : us \in shorter, u \in MainUnits}

NotWritten == [written |-> FALSE, data |-> <<>>]
Written(d) == [written |-> TRUE, data |-> d]

\* l.933: the state when the for loop is entered
InitMain ==
    /\ pc = "loop"
    /\ units \in UnitLists(MaxUnits)
    /\ questions = [i \in 1..Len(units) |-> EmptyDict]
    /\ qi = 1
    /\ raised = <<>>
    /\ output = NotWritten
    /\ extracted = Idle /\ elements = Idle /\ gi = Idle /\ current_unit = Idle
    /\ IdleHyph /\ IdleTable /\ IdleCall /\ IdleSoup
    /\ IdleView

notMain ==
    <<extracted, elements, gi, current_unit, hyphVars, tableVars, callVars,
      soupVars, viewVars>>

\* l.934-957 once the try block gave r. q and unit are the objects held by
\* questions and units, so what the try block did to them stays done.
EndTurn(r) ==
    /\ questions' = [questions EXCEPT ![qi] = r.q]
    /\ units' = [units EXCEPT ![qi] = r.unit]
    /\ raised' = Append(raised, r.err)
    /\ IF Propagates(r.err)
       THEN pc' = "aborted" /\ UNCHANGED qi
       ELSE pc' = "loop" /\ qi' = qi + 1
    /\ UNCHANGED <<output, notMain>>

\* l.934-957: one turn of the for loop
ExtractUnit ==
    /\ pc = "loop"
    /\ qi <= Len(units)
    /\ EndTurn(ExtractRecord(units[qi]))

\* l.980-982, reached when the for loop is through
Dump ==
    /\ pc = "loop"
    /\ qi > Len(units)
    /\ output' = Written(questions)
    /\ pc' = "written"
    /\ UNCHANGED <<units, questions, qi, raised, notMain>>

NextMain == ExtractUnit \/ Dump

SpecMain == InitMain /\ [][NextMain]_vars

----------------------------------------------------------------------------
(* Claims about the per-unit loop, checked under SpecMain *)

\* C10: if the extraction of a unit raises, the run aborts at that unit: no
\* later unit is processed and the output file is not written; the output
\* file is written only once every unit was extracted without an exception.
C10_AbortOnAnyUnitError ==
    /\ \A i \in 1..Len(raised) :
            raised[i] # "" => /\ pc = "aborted"
                              /\ i = qi /\ Len(raised) = qi
                              /\ \A j \in (qi + 1)..Len(units) :
                                    questions[j] = EmptyDict
                              /\ ~output.written
    /\ pc = "aborted" => raised[qi] # ""
    /\ output.written =>
            /\ Len(raised) = Len(units)
            /\ \A i \in 1..Len(units) : raised[i] = ""
            /\ output.data = questions

\* The first of two units raised the validation error of the frequency
\* total, and the run stopped there with the second unit untouched.
C10_Witness ==
    /\ pc = "aborted"
    /\ Len(units) = 2
    /\ qi = 1
    /\ raised = <<ValidationError(FREQ)>>
    /\ questions[2] = EmptyDict
    /\ ~output.written

\* The keys get_answer_fields gives a record.
TableKeys == {ANS, CODE, FREQ, WEIGHTED, PERC, TOTAL}

\* C12: a record produced for PUMFID or WTPP has the empty string as source
\* and none of the six table keys; every other record produced has all six.
C12_AnswerlessVariablesHaveNoTable ==
    \A i \in 1..Len(questions) :
        i < qi =>
            IF questions[i]["variable_name"] \in {PUMFID, WTPP}
            THEN /\ questions[i]["source"] = <<>>
                 /\ DOMAIN questions[i] \cap TableKeys = {}
            ELSE TableKeys \subseteq DOMAIN questions[i]

\* The records of WTPP and of a variable with a table were written.
C12_Witness ==
    /\ pc = "written"
    /\ Len(output.data) = 2
    /\ output.data[1]["variable_name"] = WTPP
    /\ output.data[1]["source"] = <<>>
    /\ DOMAIN output.data[1] \cap TableKeys = {}
    /\ output.data[2]["variable_name"] = AB
    /\ TableKeys \subseteq DOMAIN output.data[2]

----------------------------------------------------------------------------
(* get_variable_name called on its own: SpecName *)

\* The heading row of a unit: the two labels get_variable_name looks up.
NameLabel == Box(36, 4, 80, V_variable_name)
LengthLabel == Box(300, 4, 60, V_length \o <<" ", "3">>)

\* Boxes about the place of the name: inside the window, on its four edges,
\* and beyond them.
NameCandidates ==
    {Box(120, 4, 50, <<"A", "B">>),
     Box(200, 8, 50, <<"C", "D">>),
     Box(120, 9, 50, <<"E">>),
     Box(37, 0, 50, <<"F">>),
     Box(36, 6, 50, <<"G">>),
     Box(299, 4, 50, <<"H">>),
     Box(300, 2, 50, <<"I">>),
     Box(120, -1, 50, <<"J">>)}

NameUnits ==
    {UnitOf(labels \cup S) :
        labels \in {{NameLabel, LengthLabel}, {NameLabel}, {LengthLabel}},
        S \in SUBSET NameCandidates}

notCall == <<groupVars, hyphVars, tableVars, mainVars, soupVars, viewVars>>

InitName ==
    /\ pc = "called"
    /\ arg \in NameUnits
    /\ ret = Idle
    /\ IdleGroup /\ IdleHyph /\ IdleTable /\ IdleMain /\ IdleSoup
    /\ IdleView

\* What a call gave: its value returned, or its exception raised.
Leave(r) ==
    /\ ret' = r
    /\ pc' = IF r.err = "" THEN "returned" ELSE "raised"
    /\ UNCHANGED <<arg, notCall>>

\* l.324-352
CallGetVariableName ==
    /\ pc = "called"
    /\ Leave(get_variable_name(arg))

NextName == CallGetVariableName

SpecName == InitName /\ [][NextName]_vars

\* The elements of u strictly between the lefts of the two labels and less
\* than 5 above or below the 'Variable Name:' label.
NameWindow(u) ==
    LET name_label == get_elem_by_text(u, V_variable_name)
        length_label == get_elem_by_text(u, V_length)
    IN  {i \in 1..Len(u) :
            /\ name_label.left < u[i].left /\ u[i].left < length_label.left
            /\ Abs(u[i].top - name_label.top) < 5}

\* C11: with both labels in the unit, get_variable_name returns the text of
\* the one element in the window between the labels, and raises the
\* assertion error, returning nothing, when the window holds no element or
\* more than one.
C11_ExactlyOneNameElement ==
    (/\ pc # "called"
     /\ get_elem_by_text(arg, V_variable_name) # None
     /\ get_elem_by_text(arg, V_length) # None)
    =>
    /\ Cardinality(NameWindow(arg)) = 1 =>
            /\ pc = "returned"
            /\ \A i \in NameWindow(arg) : ret.val = arg[i].text
    /\ Cardinality(NameWindow(arg)) # 1 =>
            /\ pc = "raised"
            /\ ret = Throws("AssertionError: found more than one element")

\* Two elements stood in the window, and the assertion error was raised.
C11_Witness ==
    /\ pc = "raised"
    /\ get_elem_by_text(arg, V_variable_name) # None
    /\ get_elem_by_text(arg, V_length) # None
    /\ Cardinality(NameWindow(arg)) = 2
    /\ ret.err = "AssertionError: found more than one element"

----------------------------------------------------------------------------
(* The document (l.89-92): the children of body, in order. A node is a Tag  *)
(* (a div or a span) or a NavigableString. Of a Tag the model keeps what    *)
(* the script reads: the names of the anchors in it (tag.a is the first),   *)
(* the texts of the spans in it (tag.span is the first), the geometry of   *)
(* its style attribute and its text.                                        *)

NavigableString == [kind |-> "str"]

Tag(name, anchors, spans, style, text) ==
    [kind |-> "tag", name |-> name, anchors |-> anchors, spans |-> spans,
     style |-> style, text |-> text]

\* isinstance(node, Tag)
IsTag(node) == node.kind = "tag"

\* str(n) for a natural number n
RECURSIVE Str(_)
Str(n) ==
    LET d == <<"0", "1", "2", "3", "4", "5", "6", "7", "8", "9">>
    IN  IF n < 10 THEN <<d[n + 1]>> ELSE Str(n \div 10) \o <<d[(n % 10) + 1]>>

\* l.35-36
START_PAGE == 9
END_PAGE == 126

\* The style of the div of a page anchor, which gives a top only, and the
\* style of a box, which gives left, top, width and height.
AnchorStyle == [top |-> 0]
BoxStyle(left, top, width, height) ==
    [left |-> left, top |-> top, width |-> width, height |-> height]

\* The div that holds the anchor of page `name`.
AnchorDiv(name) ==
    Tag("div", <<name>>, <<>>, AnchorStyle, <<"P", "a", "g", "e">>)

\* A text box: a div with one span of text.
TextDiv(left, top, text) ==
    Tag("div", <<>>, <<text>>, BoxStyle(left, top, 50, 10), text)

----------------------------------------------------------------------------
(* The cut to the data pages (l.94-109): SpecTrim *)

\* soup.select('a[name="<page>"]'): the nodes that hold such an anchor, in
\* document order
Select(doc, page) ==
    SelectSeq([i \in 1..Len(doc) |-> i],
              LAMBDA i : /\ IsTag(doc[i])
                         /\ \E k \in 1..Len(doc[i].anchors) :
                                doc[i].anchors[k] = Str(page))

\* l.103-105: the condition of the break
IsEndDivAnyAnchor(node) == IsTag(node) /\ node.anchors # <<>>
IsEndDiv(node) ==
    /\ IsTag(node)
    /\ node.anchors # <<>>
    /\ node.anchors[1] = Str(END_PAGE + 1)

\* l.102-108: the loop over start_div.next_siblings from index i on
RECURSIVE NextSiblingsFrom(_, _)
NextSiblingsFrom(doc, i) ==
    IF i > Len(doc) \/ IsEndDiv(doc[i]) THEN <<>>
    ELSE <<doc[i]>> \o NextSiblingsFrom(doc, i + 1)

\* l.100-109; [0] of an empty selection raises IndexError
Trimmed(doc) ==
    LET found == Select(doc, START_PAGE)
    IN  IF found = <<>> THEN Throws("IndexError")
        ELSE Returns(<<doc[found[1]]>> \o NextSiblingsFrom(doc, found[1] + 1))

MaxDoc == 5

\* The nodes of the documents: the anchor divs of the first data page, of a
\* page inside the range and of the page after the last, a text box, and
\* the string between two tags.
DocNodes ==
    {AnchorDiv(Str(START_PAGE)), AnchorDiv(Str(START_PAGE + 1)),
     AnchorDiv(Str(END_PAGE + 1)), TextDiv(36, 4, <<"x">>), NavigableString}

\* The parser joins adjacent strings, so no two strings are neighbours.
RECURSIVE Docs(_)
Docs(n) ==
    IF n = 0 THEN {<<>>}
    ELSE LET shorter == Docs(n - 1)
         IN  shorter \cup
             {Append(d, x) : d \in shorter,
                             x \in DocNodes \ {NavigableString}} \cup
             {Append(d, NavigableString) :
                d \in {d \in shorter : d = <<>> \/ d[Len(d)] # NavigableString}}

notSoup == <<groupVars, hyphVars, tableVars, mainVars, viewVars>>

\* l.92: soup is the body of the document
InitTrim ==
    /\ pc = "parsed"
    /\ soup \in Docs(MaxDoc)
    /\ arg = soup
    /\ ret = Idle /\ si = Idle
    /\ IdleGroup /\ IdleHyph /\ IdleTable /\ IdleMain
    /\ IdleView

\* l.100-109 once the cut gave r: soup is the cut, or the script ends
EndTrim(r) ==
    /\ ret' = r
    /\ IF r.err = ""
       THEN pc' = "trimmed" /\ soup' = r.val
       ELSE pc' = "raised" /\ UNCHANGED soup
    /\ UNCHANGED <<arg, si, notSoup>>

\* l.100-109; arg keeps the document as it was parsed
Trim ==
    /\ pc = "parsed"
    /\ EndTrim(Trimmed(soup))

NextTrim == Trim

SpecTrim == InitTrim /\ [][NextTrim]_vars

\* The nodes of doc that hold the anchor of `page`.
Holding(doc, page) ==
    {i \in 1..Len(doc) :
        IsTag(doc[i]) /\ \E k \in 1..Len(doc[i].anchors) :
                            doc[i].anchors[k] = Str(page)}

\* C13: the cut keeps exactly the nodes from the first one that holds the
\* anchor of the start page up to, and without, the first later one that
\* holds the anchor of the page after the end page; without an anchor of the
\* start page the script ends with an exception.
C13_KeepsStartUpToEndPlusOne ==
    pc # "parsed" =>
        IF Holding(arg, START_PAGE) = {}
        THEN pc = "raised" /\ ret.err = "IndexError"
        ELSE LET s == CHOOSE i \in Holding(arg, START_PAGE) :
                        \A j \in Holding(arg, START_PAGE) : i <= j
                 later == {i \in Holding(arg, END_PAGE + 1) : i > s}
                 e == IF later = {} THEN Len(arg) + 1
                      ELSE CHOOSE i \in later : \A j \in later : i <= j
             IN  /\ pc = "trimmed"
                 /\ soup = SubSeq(arg, s, e - 1)

\* A text box, the anchor of page 9, two nodes, the anchor of page 127: the
\* cut kept the three nodes in the middle.
C13_Witness ==
    /\ pc = "trimmed"
    /\ Len(arg) = 5
    /\ arg[1] = TextDiv(36, 4, <<"x">>)
    /\ arg[2] = AnchorDiv(Str(START_PAGE))
    /\ arg[5] = AnchorDiv(Str(END_PAGE + 1))
    /\ soup = SubSeq(arg, 2, 4)

----------------------------------------------------------------------------
(* The removal passes (l.145-161) and the extraction loop (l.190-228):      *)
(* SpecClean                                                                *)

\* l.126-127
DIVIDER_LEFT_MATCH == 36
DIVIDER_HEIGHT_MATCH == 0

\* The style of a rule: a span without font-family.
RuleStyle(left, top, width, height) ==
    [left |-> left, top |-> top, width |-> width, height |-> height,
     font |-> FALSE]

\* l.114-141; a style with font-family belongs to a text span
is_non_divider_hline(tag) ==
    IF tag.name # "span" THEN FALSE
    ELSE IF "font" \in DOMAIN tag.style /\ tag.style.font THEN FALSE
    ELSE IF /\ tag.style.left = DIVIDER_LEFT_MATCH
            /\ tag.style.height = DIVIDER_HEIGHT_MATCH
    THEN FALSE
    ELSE TRUE

\* l.145-147: the loop runs over a copy of the list of children
WithoutHlines(doc) ==
    SelectSeq(doc, LAMBDA node : ~(IsTag(node) /\ is_non_divider_hline(node)))

\* l.153-154
BANNER ==
    <<"C", "L", "P", "S", " ", "2", "0", "2", "1", " ", "-", " ",
      "D", "a", "t", "a", " ", "D", "i", "c", "t", "i", "o", "n",
      "a", "r", "y">>
FOOTNOTE ==
    <<"T", "o", "t", "a", "l", "s", " ", "m", "a", "y", " ", "n",
      "o", "t", " ", "a", "d", "d", " ", "u", "p", " ", "d", "u",
      "e", " ", "t", "o", " ", "r", "o", "u", "n", "d", "i", "n",
      "g">>

\* re.search(r"Page.*\-", text): "Page", then a "-" further on in the line
PageDash(text) ==
    \E i \in 1..Len(text), j \in 1..Len(text) :
        /\ i + 4 <= j
        /\ SubSeq(text, i, i + 3) = <<"P", "a", "g", "e">>
        /\ text[j] = "-"
        /\ \A k \in (i + 4)..(j - 1) : text[k] # "\n"

\* l.151-155
IsHeaderFooter(node) ==
    /\ IsTag(node)
    /\ node.spans # <<>>
    /\ \/ Contains(BANNER, node.spans[1])
       \/ Contains(FOOTNOTE, node.spans[1])
       \/ PageDash(node.spans[1])

\* l.160
IsPageDiv(node) == IsTag(node) /\ node.anchors # <<>>

\* tag.extract(): the children without the one at index i
Extracted(doc, i) == SubSeq(doc, 1, i - 1) \o SubSeq(doc, i + 1, Len(doc))

\* l.198-227 for one tag: the exception raised, or the Element made of it.
\* re.search gives None for what the style does not hold, and None.group
\* raises AttributeError.
ElementOf(tag) ==
    IF {"left", "top", "width", "height"} \ DOMAIN tag.style # {}
    THEN Throws("AttributeError")
    ELSE IF tag.name \notin {"div", "span"} THEN Throws("ValueError")
    ELSE Returns(Element(IF tag.name = "div" THEN TEXT_TYPE ELSE DIVIDER_TYPE,
                         tag.style.left, tag.style.top, tag.style.width,
                         tag.style.height, tag.text))

\* l.191-228: the loop from the i-th child on, es being the elements so far
RECURSIVE ElementsFrom(_, _, _)
AppendElement(r, doc, i, es) ==
    IF r.err # "" THEN [err |-> r.err, val |-> es]
    ELSE ElementsFrom(doc, i + 1, Append(es, r.val))
ElementsFrom(doc, i, es) ==
    IF i > Len(doc) THEN Returns(es)
    ELSE IF ~IsTag(doc[i]) THEN ElementsFrom(doc, i + 1, es)
    ELSE AppendElement(ElementOf(doc[i]), doc, i, es)

MaxBoxes == 3

BannerDiv == TextDiv(36, 20, BANNER)
FootnoteDiv == TextDiv(36, 700, FOOTNOTE \o <<".">>)
PageNumberDiv == TextDiv(500, 20, <<"P", "a", "g", "e", " ", "9", " ", "-", " ", "1">>)
DividerSpan == Tag("span", <<>>, <<>>, RuleStyle(36, 50, 500, 0), <<>>)
HlineSpan == Tag("span", <<>>, <<>>, RuleStyle(50, 90, 100, 0), <<>>)
StyledSpan ==
    Tag("span", <<>>, <<>>, [RuleStyle(50, 70, 40, 10) EXCEPT !.font = TRUE],
        <<"y">>)

\* The nodes after the first of a cut document: the anchor div of a later
\* page, a text box, the three kinds of header and footer, a divider, a
\* rule that is no divider, a span with the font-family of a text, and the
\* string between two tags.
CutNodes ==
    {AnchorDiv(Str(START_PAGE + 1)), TextDiv(36, 60, <<"x">>), BannerDiv,
     FootnoteDiv, PageNumberDiv, DividerSpan, HlineSpan, StyledSpan,
     NavigableString}

RECURSIVE CutDocs(_)
CutDocs(n) ==
    IF n = 0 THEN {<<AnchorDiv(Str(START_PAGE))>>}
    ELSE LET shorter == CutDocs(n - 1)
         IN  shorter \cup
             {Append(d, x) : d \in shorter,
                             x \in CutNodes \ {NavigableString}} \cup
             {Append(d, NavigableString) :
                d \in {d \in shorter : d[Len(d)] # NavigableString}}

\* l.109: soup is the cut document, which begins with start_div
InitClean ==
    /\ pc = "hlines"
    /\ soup \in CutDocs(MaxBoxes)
    /\ arg = soup
    /\ si = 1
    /\ extracted = <<>>
    /\ ret = Idle
    /\ elements = Idle /\ gi = Idle /\ current_unit = Idle /\ units = Idle
    /\ IdleHyph /\ IdleTable /\ IdleMain
    /\ IdleView

notClean ==
    <<arg, elements, gi, current_unit, units, hyphVars, tableVars, mainVars,
      viewVars>>

\* l.145-147
RemoveHlines ==
    /\ pc = "hlines"
    /\ soup' = WithoutHlines(soup)
    /\ pc' = "headers"
    /\ si' = 1
    /\ UNCHANGED <<extracted, ret, notClean>>

\* One turn of a loop `for tag in soup.children` whose body extracts the tag
\* when `remove` holds of it. soup.children iterates the list of children
\* by position, so after an extraction the iterator, one position further,
\* is past the node that moved up into the place of the extracted one.
Turn(remove) ==
    /\ si <= Len(soup)
    /\ soup' = IF remove THEN Extracted(soup, si) ELSE soup
    /\ si' = si + 1
    /\ UNCHANGED <<pc, extracted, ret, notClean>>

\* The loop is through: the iterator is past the last child.
Through(next) ==
    /\ si > Len(soup)
    /\ pc' = next
    /\ si' = 1
    /\ UNCHANGED <<soup, extracted, ret, notClean>>

\* l.150-156
HeaderFooterTurn ==
    /\ pc = "headers"
    /\ Turn(IsHeaderFooter(soup[si]))

HeaderFooterThrough ==
    /\ pc = "headers"
    /\ Through("page divs")

\* l.159-161
PageDivTurn ==
    /\ pc = "page divs"
    /\ Turn(IsPageDiv(soup[si]))

PageDivThrough ==
    /\ pc = "page divs"
    /\ Through("elements")

\* l.191-228 once the loop gave r
EndExtract(r) ==
    /\ extracted' = r.val
    /\ ret' = r
    /\ pc' = IF r.err = "" THEN "extracted" ELSE "raised"
    /\ UNCHANGED <<soup, si, notClean>>

\* l.191-228
Extract ==
    /\ pc = "elements"
    /\ EndExtract(ElementsFrom(soup, 1, <<>>))

NextClean ==
    \/ RemoveHlines
    \/ HeaderFooterTurn \/ HeaderFooterThrough
    \/ PageDivTurn \/ PageDivThrough
    \/ Extract

SpecClean == InitClean /\ [][NextClean]_vars

\* C14: once the header and footer pass is through, no node whose first span
\* holds the banner, the footnote or the page number is left in the
\* document.
C14_NoHeaderFooterRemains ==
    pc \in {"page divs", "elements", "extracted", "raised"} =>
        \A i \in 1..Len(soup) : ~IsHeaderFooter(soup[i])

\* C15: once the page div pass is through, no node that holds a page anchor
\* is left in the document for the extraction loop to meet.
C15_NoPageDivRemains ==
    pc \in {"elements", "extracted", "raised"} =>
        \A i \in 1..Len(soup) : ~IsPageDiv(soup[i])

\* A span at the left offset and of the height of a divider, without
\* font-family.
IsDividerSpan(node) ==
    /\ IsTag(node)
    /\ node.name = "span"
    /\ node.style.left = 36
    /\ node.style.height = 0
    /\ ~node.style.font

\* C23: once the rules are removed, every span left in the document is a
\* divider span; and when the extraction loop is through, the Elements are
\* those of the tags of the document in order, every Divider among them
\* made of a divider span.
C23_DividersComeFromDividerSpans ==
    /\ pc \in {"headers", "page divs", "elements", "extracted", "raised"} =>
        \A i \in 1..Len(soup) :
            (IsTag(soup[i]) /\ soup[i].name = "span") => IsDividerSpan(soup[i])
    /\ pc = "extracted" =>
        LET tags == SelectSeq(soup, IsTag)
        IN  /\ Len(extracted) = Len(tags)
            /\ \A i \in 1..Len(tags) :
                extracted[i].elem_type = DIVIDER_TYPE => IsDividerSpan(tags[i])

----------------------------------------------------------------------------
(* get_middle_section_broad (l.436-534) stage by stage, as get_question_text *)
(* calls it: SpecBroad                                                       *)

\* The two headings of the question text, the second one far enough below
\* the first for the band to hold several lines.
BroadLabels ==
    {Box(36, 40, 80, V_question_text), Box(36, 100, 80, V_universe)}

\* Boxes in and around the band: left-aligned ones of one and of two lines,
\* ones further right whose top is the top of a left-aligned line, one above
\* it, one below it or halfway between two, one left of the band and one
\* under it.
BroadCandidates ==
    {Box(178, 40, 50, <<"a">>),
     Box(178, 40, 50, <<"b", "-", "\n", "c">>),
     Box(178, 60, 50, <<"d">>),
     Box(300, 40, 50, <<"-", " ", "e">>),
     Box(300, 41, 50, <<"-", " ", "f">>),
     Box(300, 39, 50, <<"-", " ", "g">>),
     Box(300, 50, 50, <<"h">>),
     Box(100, 40, 50, <<"i">>),
     Box(178, 95, 50, <<"j">>)}

BroadUnits ==
    {UnitOf(BroadLabels \cup S) : S \in SUBSET BroadCandidates}
    \cup {UnitOf({Box(36, 40, 80, V_question_text), Box(178, 40, 50, <<"a">>)})}

InitBroad ==
    /\ pc = "called"
    /\ unit \in BroadUnits
    /\ out = <<>>
    /\ err = ""
    /\ ret = Idle
    /\ arg = Idle
    /\ IdleGroup /\ IdleHyph /\ IdleMain /\ IdleSoup
    /\ IdleView

notBroad == <<arg, groupVars, hyphVars, mainVars, soupVars, viewVars>>

\* l.483-489 once the headings are looked up; None.top raises AttributeError
BroadCollectBetween(top_elem, bottom_elem) ==
    IF top_elem = None \/ bottom_elem = None
    THEN /\ pc' = "raised"
         /\ err' = "AttributeError"
         /\ UNCHANGED <<unit, out, ret, notBroad>>
    ELSE /\ pc' = "collected"
         /\ out' = BroadFound(unit, top_elem, bottom_elem)
         /\ UNCHANGED <<unit, err, ret, notBroad>>

\* l.472-489
BroadCollect ==
    /\ pc = "called"
    /\ BroadCollectBetween(get_elem_by_text(unit, V_question_text),
                           get_elem_by_text(unit, V_universe))

\* l.491-507
BroadBreakLines ==
    /\ pc = "collected"
    /\ out' = BreakLines(out, out, 1)
    /\ pc' = "broken"
    /\ UNCHANGED <<unit, err, ret, notBroad>>

\* l.513-521
BroadRealign ==
    /\ pc = "broken"
    /\ out' = Realign(out)
    /\ unit' = RealignedUnit(unit, V_question_text, V_universe)
    /\ pc' = "realigned"
    /\ UNCHANGED <<err, ret, notBroad>>

\* l.523-534
BroadJoin ==
    /\ pc = "realigned"
    /\ out' = SortedBy(SortedBy(out, "left"), "top")
    /\ ret' = Returns(JoinedText(Texts(out')))
    /\ pc' = "returned"
    /\ UNCHANGED <<unit, err, notBroad>>

NextBroad == BroadCollect \/ BroadBreakLines \/ BroadRealign \/ BroadJoin

SpecBroad == InitBroad /\ [][NextBroad]_vars

\* The stages give what the function gives as a whole.
BroadStagesMatchFunction ==
    /\ pc = "returned" => ret = get_question_text(unit)
    /\ pc = "raised" => get_question_text(unit) = Throws(err)

\* The left-aligned elements of lst that no other left-aligned element is
\* nearer to e by absolute vertical distance.
NearestLeftAligned(lst, e) ==
    LET L == {j \in 1..Len(lst) : LeftAligned(lst[j])}
    IN  {j \in L : \A k \in L : Abs(lst[j].top - e.top) <= Abs(lst[k].top - e.top)}

\* C18: the realigning stage gives every collected element that lies outside
\* the left-aligned column the top of a left-aligned collected element
\* nearest to it by absolute vertical distance (when there is a left-aligned
\* element at all), leaving the list in the order it was in.
C18_OffColumnTakesNearestLeftAlignedTop ==
    [][pc = "broken" =>
        /\ Len(out') = Len(out)
        /\ \A i \in 1..Len(out) :
            (~LeftAligned(out[i]) /\ NearestLeftAligned(out, out[i]) # {}) =>
                \E j \in NearestLeftAligned(out, out[i]) :
                    out'[i].top = out[j].top]_vars

----------------------------------------------------------------------------
(* get_middle_section (l.381-433) as get_universe calls it: SpecMiddle       *)

\* The headings the band of the universe lies between.
MiddleLabels ==
    {Box(36, 40, 80, V_universe), Box(36, 100, 80, V_note)}

\* Boxes of the band: a word, two words with two spaces between them, two
\* lines with an empty line between them, a box with no text, a line that
\* ends on a hyphenated word, a line with a ligature, two lines the first of
\* which ends with a space; and a box of the column left of the band.
MiddleCandidates ==
    {Box(178, 40, 50, <<"a">>),
     Box(178, 45, 50, <<"b", " ", " ", "c">>),
     Box(178, 50, 50, <<"d", "\n", "\n", "e">>),
     Box(178, 55, 50, <<>>),
     Box(178, 60, 50, <<"f", "-", "\n", "g">>),
     Box(178, 65, 50, <<"<fi>", "h">>),
     Box(178, 70, 50, <<"i", " ", "\n", "j">>),
     Box(36, 60, 50, <<"k">>)}

MiddleUnits ==
    {UnitOf(MiddleLabels \cup S) : S \in SUBSET MiddleCandidates}
    \cup {UnitOf({Box(36, 40, 80, V_universe), Box(178, 40, 50, <<"a">>)})}

InitMiddle ==
    /\ pc = "called"
    /\ arg \in MiddleUnits
    /\ ret = Idle
    /\ IdleGroup /\ IdleHyph /\ IdleTable /\ IdleMain /\ IdleSoup
    /\ IdleView

\* l.579-590
CallGetUniverse ==
    /\ pc = "called"
    /\ Leave(get_universe(arg))

NextMiddle == CallGetUniverse

SpecMiddle == InitMiddle /\ [][NextMiddle]_vars

\* C22: the string get_middle_section returns holds no line break and no two
\* whitespace characters in a row.
C22_NoLineBreakNoRepeatedWhitespace ==
    pc = "returned" =>
        /\ \A i \in 1..Len(ret.val) : ret.val[i] # "\n"
        /\ \A i \in 1..(Len(ret.val) - 1) :
              ~(ret.val[i] \in WS /\ ret.val[i + 1] \in WS)

----------------------------------------------------------------------------
(* The viewer (verify_app.py): SpecView. Streamlit runs a callback when its  *)
(* widget is used and then runs the script again from the top. Indices      *)
(* count from 0, as in the script.                                          *)

\* l.9
START_INDEX == 0

\* data[i] for an index i that counts from 0
DataAt(i) == data[i + 1]

\* l.72-81: a dict from each variable name to the index of the last record
\* of that name
generate_variable_index(d) ==
    [name \in {d[i] : i \in 1..Len(d)} |->
        (CHOOSE i \in 1..Len(d) :
            d[i] = name /\ \A j \in (i + 1)..Len(d) : d[j] # name) - 1]

\* l.124
var_index == generate_variable_index(data)

\* l.125-133 on the first run of the script
FirstSession(d) ==
    Put(Put(EmptyDict, "current_var_index", START_INDEX),
        "max_var_index", Cardinality(DOMAIN generate_variable_index(d)) - 1)

MaxVars == 4
VarNames == {"A", "B", "C"}

\* The state after the first run of the script: l.137-138 raise IndexError
\* when data is empty.
InitView ==
    /\ data \in UNION {[1..n -> VarNames] : n \in 0..MaxVars}
    /\ IF data = <<>>
       THEN pc = "raised" /\ session_state = FirstSession(data)
       ELSE /\ pc = "shown"
            /\ session_state = Put(FirstSession(data), "select_box", data[1])
    /\ IdleGroup /\ IdleHyph /\ IdleTable /\ IdleMain /\ IdleCall /\ IdleSoup

notView ==
    <<data, groupVars, hyphVars, tableVars, mainVars, callVars, soupVars>>

\* l.117-138 after a callback left the session at ss: the script runs again
\* and sets the select box to the name of the current record (l.137-138)
Rerun(ss) ==
    /\ session_state' =
          Put(ss, "select_box", DataAt(ss["current_var_index"]))
    /\ UNCHANGED <<pc, notView>>

\* l.99-102, the select box having been set to another of its options
\* (l.149-155)
on_select_box ==
    /\ pc = "shown"
    /\ \E choice \in DOMAIN var_index \ {session_state["select_box"]} :
          Rerun(Put(session_state, "current_var_index", var_index[choice]))

\* l.107-108
Prev(ss) ==
    IF ss["current_var_index"] > 0
    THEN Put(ss, "current_var_index", ss["current_var_index"] - 1)
    ELSE ss

\* l.113-115
Next(ss) ==
    IF ss["current_var_index"] < ss["max_var_index"]
    THEN Put(ss, "current_var_index", ss["current_var_index"] + 1)
    ELSE ss

\* l.105-108
on_prev_button ==
    /\ pc = "shown"
    /\ Rerun(Prev(session_state))

\* l.111-115
on_next_button ==
    /\ pc = "shown"
    /\ Rerun(Next(session_state))

NextView == on_select_box \/ on_prev_button \/ on_next_button

SpecView == InitView /\ [][NextView]_vars

\* C26: while the viewer shows a record, its index lies between 0 and
\* max_var_index, which is the size of the variable index less one.
C26_IndexWithinBounds ==
    pc = "shown" =>
        /\ session_state["max_var_index"] = Cardinality(DOMAIN var_index) - 1
        /\ 0 <= session_state["current_var_index"]
        /\ session_state["current_var_index"] <= session_state["max_var_index"]

\* The names of the records of data are pairwise distinct.
UniqueNames == \A i, j \in 1..Len(data) : data[i] = data[j] => i = j

\* With distinct names the index stays within its bounds.
IndexWithinBoundsOnUniqueNames == UniqueNames => C26_IndexWithinBounds

\* Previous at index 0 and Next at max_var_index leave the index unchanged.
EndsStay ==
    /\ session_state["current_var_index"] = 0
          => Prev(session_state) = session_state
    /\ session_state["current_var_index"] = session_state["max_var_index"]
          => Next(session_state) = session_state

=============================================================================
